---- MODULE Spec2Model ----
(***************************************************************************)
(* Model of the conversation engine of the RAG knowledge assistant:         *)
(*   core/security/privacy_filter.py   PrivacyFilter                        *)
(*   core/memory/memory_manager.py     MemoryManager                        *)
(*   core/vector_store/chroma_store.py VectorStore                          *)
(*   core/llm/llm_service.py           LLM (the engine)                     *)
(*                                                                         *)
(* Python values are modelled as strings: an Enum member is written        *)
(* "AnswerMode.RAG", the raw string a caller may pass instead is "rag",     *)
(* Python's None is NONE.  A text is a sequence of tokens; the tokens of    *)
(* one text are separated by blanks, and the token alphabet is chosen so    *)
(* that no regular expression of the privacy filter matches across a        *)
(* token boundary.  A call that may raise returns a record with a field     *)
(* raised; exc is str(e).                                                   *)
(***************************************************************************)
EXTENDS Integers, Sequences, FiniteSets, TLC

VARIABLES
    \* process environment, fixed at import time (ModelConfig / AppConfig)
    api_keys,            \* providers whose *_API_KEY is set
    tavily_key,          \* AppConfig.TAVILY_API_KEY is set
    \* LLM (engine) attributes
    model_provider, llm, answer_mode, chain, search_tool,
    memory_mode, session_id, enable_filter,
    \* MemoryManager attributes and its on-disk stores
    mm_memory_mode, transient_memory, persistent_memory, pm_docs, session_files,
    \* VectorStore attributes and its on-disk store
    embedding_provider, embeddings, vector_store, vs_disk,
    \* datetime.now() and uuid4() as counters
    clock, next_uuid,
    \* history: result of the last call, backend calls it made, bookkeeping
    ret, events, appended, ncalls,
    \* the calls in progress on the one engine the API handlers share: per
    \* thread the method, its position and its local variables
    calls

envVars == <<api_keys, tavily_key, calls>>
llmVars == <<model_provider, llm, answer_mode, chain, search_tool,
             memory_mode, session_id, enable_filter>>
mmVars  == <<mm_memory_mode, transient_memory, persistent_memory, pm_docs,
             session_files, clock, next_uuid>>
vsVars  == <<embedding_provider, embeddings, vector_store, vs_disk>>
vars    == <<envVars, llmVars, mmVars, vsVars, ret, events, appended, ncalls>>

----------------------------------------------------------------------------
(* Bounds of the model *)

MaxAppends == 12         \* direct MemoryManager appends in SpecMemory
MaxQueries == 1          \* get_response calls in SpecEngine
MaxStored == 2           \* direct appends under a session id
MaxSessions == 1         \* session ids drawn in SpecRoundTrip, SpecSessions
MaxListed == 2           \* session ids drawn in SpecListing
MaxDocs == 4             \* passages retrieved for one query (k=4)
MaxResults == 3          \* results of one web search
MaxTokens == 3           \* tokens of a text given to the privacy filter

(* Program constants *)

MEMORY_MESSAGE_LIMIT == 10

NONE == "<None>"

----------------------------------------------------------------------------
(* core/config/enums.py *)

OPENAI    == "ModelProvider.OPENAI"
ANTHROPIC == "ModelProvider.ANTHROPIC"
GROQ      == "ModelProvider.GROQ"
OLLAMA    == "ModelProvider.OLLAMA"
ModelProvider == {OPENAI, ANTHROPIC, GROQ, OLLAMA}

HUGGINGFACE  == "EmbeddingProvider.HUGGINGFACE"
EMB_OLLAMA   == "EmbeddingProvider.OLLAMA"
EmbeddingProvider == {HUGGINGFACE, EMB_OLLAMA}

DEFAULT    == "AnswerMode.DEFAULT"
RAG        == "AnswerMode.RAG"
WEB_SEARCH == "AnswerMode.WEB_SEARCH"
AnswerMode == {DEFAULT, RAG, WEB_SEARCH}

TRANSIENT  == "MemoryMode.TRANSIENT"
PERSISTENT == "MemoryMode.PERSISTENT"
MemoryMode == {TRANSIENT, PERSISTENT}

\* Enum(value): the member whose value is the string, or NONE (ValueError)
EnumValue(member) ==
    CASE member = OPENAI -> "openai"  [] member = ANTHROPIC -> "anthropic"
      [] member = GROQ -> "groq"      [] member = OLLAMA -> "ollama"
      [] member = HUGGINGFACE -> "huggingface" [] member = EMB_OLLAMA -> "ollama"
      [] member = DEFAULT -> "default" [] member = RAG -> "rag"
      [] member = WEB_SEARCH -> "web_search"
      [] member = TRANSIENT -> "transient" [] member = PERSISTENT -> "persistent"

EnumLookup(enum, value) ==
    IF \E m \in enum : EnumValue(m) = value
    THEN CHOOSE m \in enum : EnumValue(m) = value
    ELSE NONE

\* isinstance(x, str): every value that is neither an Enum member nor None
IsStr(x) ==
    x \notin (ModelProvider \cup EmbeddingProvider \cup AnswerMode
              \cup MemoryMode \cup {NONE})

\* Python truthiness of an optional string
Truthy(x) == x # NONE /\ x # ""

\* api/main.py: one LLM object serves every request; the callers that may
\* be inside its methods at the same time
Threads == {"t1", "t2"}

\* a thread that has not been given a request
Idle ==
    [op |-> "idle", pc |-> "idle", role |-> "user", question |-> <<>>,
     text |-> <<>>, answer |-> <<>>, sid |-> NONE, data |-> <<>>, stamp |-> 0]

\* overlapped: some call began while another was in progress;
\* written: the messages whose session file write has completed
NoCalls ==
    [of |-> [t \in Threads |-> Idle], overlapped |-> FALSE, written |-> {}]

----------------------------------------------------------------------------
(* core/security/privacy_filter.py *)

Categories == <<"email", "phone", "credit_card", "ssn", "ip_address",
                "api_key", "url_with_credentials">>

Mask(category) ==
    CASE category = "email" -> "[EMAIL REDACTED]"
      [] category = "phone" -> "[PHONE REDACTED]"
      [] category = "credit_card" -> "[CREDIT CARD REDACTED]"
      [] category = "ssn" -> "[SSN REDACTED]"
      [] category = "ip_address" -> "[IP ADDRESS REDACTED]"
      [] category = "api_key" -> "[API KEY REDACTED]"
      [] category = "url_with_credentials" -> "[URL WITH CREDENTIALS REDACTED]"

Masks == {Mask(Categories[k]) : k \in 1..Len(Categories)}

\* re.sub(patterns[category], mask, tok) on the tokens of the model's
\* alphabet, tabulated from the regular expressions
PatternSubToken(category, tok) ==
    CASE category = "email" /\ tok = "a@b.com" -> Mask(category)
      [] category = "email" /\ tok = "https://bob:pw@host.com/x"
            -> "https://bob:[EMAIL REDACTED]/x"
      [] category = "phone" /\ tok = "555-123-4567" -> Mask(category)
      [] category = "credit_card" /\ tok = "4111 1111 1111 1111" -> Mask(category)
      [] category = "ssn" /\ tok = "123-45-6789" -> Mask(category)
      [] category = "ip_address" /\ tok = "192.168.1.10" -> Mask(category)
      [] category = "api_key" /\ tok = "sk_live_abcdefghijklmnopqrstuv"
            -> Mask(category)
      [] category = "url_with_credentials" /\ tok = "https://bob:pw@host.com/x"
            -> Mask(category)
      [] category = "ip_address" /\ tok = "http://u:p@10.0.0.5/db"
            -> "http://u:p@[IP ADDRESS REDACTED]/db"
      [] category = "url_with_credentials" /\ tok = "http://u:p@10.0.0.5/db"
            -> Mask(category)
      [] category = "url_with_credentials"
            /\ tok = "http://u:p@[IP ADDRESS REDACTED]/db"
            -> "[URL WITH CREDENTIALS REDACTED] ADDRESS REDACTED]/db"
      [] category = "credit_card" /\ tok = "12345678901234567890"
            -> "[CREDIT CARD REDACTED]7890"
      [] category = "api_key" /\ tok = "12345678901234567890" -> Mask(category)
      [] category = "credit_card" /\ tok = "a@b.co1234567890123456"
            -> "a@b.co[CREDIT CARD REDACTED]"
      [] category = "email" /\ tok = "a@b.co[CREDIT CARD REDACTED]"
            -> "[EMAIL REDACTED][CREDIT CARD REDACTED]"
      [] OTHER -> tok

\* re.findall(pattern, text) is non-empty
PatternFinds(category, text) ==
    \E i \in 1..Len(text) : PatternSubToken(category, text[i]) # text[i]

PatternSub(category, text) ==
    [i \in 1..Len(text) |-> PatternSubToken(category, text[i])]

\* the tokens some category's pattern matches
SensitiveTokens ==
    {"a@b.com", "https://bob:pw@host.com/x", "555-123-4567",
     "4111 1111 1111 1111", "123-45-6789", "192.168.1.10",
     "sk_live_abcdefghijklmnopqrstuv",
     "http://u:p@10.0.0.5/db", "12345678901234567890"}

HasSensitiveToken(text) == \E i \in 1..Len(text) : text[i] \in SensitiveTokens

\* as FilterFrom, stopping at the first category that matches
RECURSIVE FilterFrom_first_match(_, _, _)
FilterFrom_first_match(k, text, found) ==
    IF k > Len(Categories) THEN [text |-> text, found |-> found]
    ELSE IF PatternFinds(Categories[k], text)
         THEN [text |-> PatternSub(Categories[k], text), found |-> TRUE]
         ELSE FilterFrom_first_match(k + 1, text, found)

RECURSIVE FilterFrom(_, _, _)
FilterFrom(k, text, found) ==
    IF k > Len(Categories) THEN [text |-> text, found |-> found]
    ELSE IF PatternFinds(Categories[k], text)
         THEN FilterFrom(k + 1, PatternSub(Categories[k], text), TRUE)
         ELSE FilterFrom(k + 1, text, found)

filter_text_identity(enable, text) == [text |-> text, found |-> FALSE]

filter_text(enable, text) ==
    IF ~enable THEN [text |-> text, found |-> FALSE]
    ELSE FilterFrom(1, text, FALSE)

----------------------------------------------------------------------------
(* core/memory/memory_manager.py *)

\* HumanMessage / AIMessage of the transient buffer
HumanMessage(content) == [type |-> "human", content |-> content]
AIMessage(content)    == [type |-> "ai", content |-> content]

\* The MemoryManager object with its stores, as one value
MM == [memory_mode |-> mm_memory_mode, transient |-> transient_memory,
       persistent_memory |-> persistent_memory, docs |-> pm_docs,
       files |-> session_files, clock |-> clock]

SetMM(m) ==
    /\ mm_memory_mode' = m.memory_mode
    /\ transient_memory' = m.transient
    /\ persistent_memory' = m.persistent_memory
    /\ pm_docs' = m.docs
    /\ session_files' = m.files
    /\ clock' = m.clock

\* outcomes of the two stores during one persistent append
StoreOutcomes == {"ok", "add_documents_raises", "file_io_raises"}

_trim_keeps_oldest(messages) ==
    IF Len(messages) > MEMORY_MESSAGE_LIMIT
    THEN SubSeq(messages, 1, MEMORY_MESSAGE_LIMIT)
    ELSE messages

_trim_transient_memory(messages) ==
    IF Len(messages) > MEMORY_MESSAGE_LIMIT
    THEN SubSeq(messages, Len(messages) - MEMORY_MESSAGE_LIMIT + 1, Len(messages))
    ELSE messages

\* first line of the content, cut to 27 characters and "..." beyond 30:
\* the tokens of the model are short, the title is the first token
_extract_title(content) == IF Len(content) = 0 THEN "" ELSE content[1]

\* returns the files after the write; an I/O error is caught and logged
\* as _update_session_metadata, the record written anew at every message
_update_session_metadata_anew(files, sid, role, content, timestamp, outcome) ==
    IF outcome = "file_io_raises" THEN files
    ELSE [s \in DOMAIN files \cup {sid} |->
            IF s = sid
            THEN [session_id |-> sid, created_at |-> timestamp,
                  updated_at |-> timestamp,
                  title |-> IF role = "user" THEN _extract_title(content)
                            ELSE "New Chat",
                  messages |-> <<[role |-> role, content |-> content,
                                  timestamp |-> timestamp]>>]
            ELSE files[s]]

_update_session_metadata(files, sid, role, content, timestamp, outcome) ==
    IF outcome = "file_io_raises" THEN files
    ELSE
      LET session_data ==
            IF sid \in DOMAIN files THEN files[sid]
            ELSE [session_id |-> sid, created_at |-> timestamp,
                  updated_at |-> timestamp,
                  title |-> IF role = "user" THEN _extract_title(content)
                            ELSE "New Chat",
                  messages |-> <<>>]
          msgs == Append(session_data.messages,
                         [role |-> role, content |-> content,
                          timestamp |-> timestamp])
          updated == [session_data EXCEPT
                        !.updated_at = timestamp,
                        !.messages = msgs,
                        !.title = IF Len(msgs) = 1 /\ role = "user"
                                  THEN _extract_title(content) ELSE @]
      IN [s \in DOMAIN files \cup {sid} |->
            IF s = sid THEN updated ELSE files[s]]

\* as _add_to_persistent_memory, without its except clause
_add_to_persistent_memory_uncaught(m, role, content, sid, outcome) ==
    LET m1 == [m EXCEPT !.clock = m.clock + 1]
    IN IF ~m.persistent_memory \/ outcome # "ok"
       THEN [raised |-> TRUE, exc |-> <<"persistent store unavailable">>,
             m |-> m1]
       ELSE [raised |-> FALSE, exc |-> <<>>,
             m |-> [m1 EXCEPT
                !.docs = Append(@, [page_content |-> content, role |-> role,
                                    timestamp |-> m1.clock, session_id |-> sid]),
                !.files = _update_session_metadata(@, sid, role, content,
                                                   m1.clock, outcome)]]

\* everything is inside try/except: never raises
_add_to_persistent_memory(m, role, content, sid, outcome) ==
    LET timestamp == m.clock + 1
        m1 == [m EXCEPT !.clock = timestamp]
    IN IF ~m.persistent_memory \/ outcome = "add_documents_raises"
       THEN [raised |-> FALSE, exc |-> <<>>, m |-> m1]
       ELSE [raised |-> FALSE, exc |-> <<>>,
             m |-> [m1 EXCEPT
                !.docs = Append(@, [page_content |-> content, role |-> role,
                                    timestamp |-> timestamp, session_id |-> sid]),
                !.files = _update_session_metadata(@, sid, role, content,
                                                   timestamp, outcome)]]

\* as add_message, writing to the persistent store whatever the session id
add_message_any_sid(m, msg, role, sid, outcome) ==
    LET m1 == [m EXCEPT !.transient = _trim_transient_memory(Append(@, msg))]
    IN IF m1.memory_mode = PERSISTENT
       THEN _add_to_persistent_memory(m1, role, msg.content, sid, outcome)
       ELSE [raised |-> FALSE, exc |-> <<>>, m |-> m1]

add_message(m, msg, role, sid, outcome) ==
    LET m1 == [m EXCEPT !.transient = _trim_transient_memory(Append(@, msg))]
    IN IF m1.memory_mode = PERSISTENT /\ Truthy(sid)
       THEN _add_to_persistent_memory(m1, role, msg.content, sid, outcome)
       ELSE [raised |-> FALSE, exc |-> <<>>, m |-> m1]

add_user_message(m, message, sid, outcome) ==
    add_message(m, HumanMessage(message), "user", sid, outcome)

add_ai_message(m, message, sid, outcome) ==
    add_message(m, AIMessage(message), "assistant", sid, outcome)

\* as get_chat_history, read before the newest message was appended
get_chat_history_before_append(m) ==
    IF m.transient = <<>> THEN <<>>
    ELSE SubSeq(m.transient, 1, Len(m.transient) - 1)

get_chat_history(m) == m.transient

----------------------------------------------------------------------------
(* core/vector_store/chroma_store.py *)

\* outcome of requests.get(OLLAMA_BASE_URL/api/tags)
ProbeOutcomes == {"200", "503", "connection_error"}

_get_fallback_embeddings == "FallbackEmbeddings"

\* never raises: every failure ends in the hash-based embedding
_initialize_ollama_embeddings(probe) ==
    IF probe = "200" THEN "OllamaEmbeddings" ELSE _get_fallback_embeddings

\* the tiers _initialize_ollama_embeddings goes through
OllamaTiers(probe) ==
    IF probe = "200" THEN <<"ollama">> ELSE <<"ollama", "hash">>

\* as _initialize_embeddings, were a failed probe left to propagate
_initialize_embeddings_no_last_resort(provider, hf_ok, probe) ==
    IF provider = HUGGINGFACE /\ hf_ok
    THEN [raised |-> FALSE, embeddings |-> "HuggingFaceEmbeddings",
          embedding_provider |-> provider, tried |-> <<"huggingface">>]
    ELSE [raised |-> probe # "200",
          embeddings |-> IF probe = "200" THEN "OllamaEmbeddings" ELSE NONE,
          embedding_provider |-> IF provider = HUGGINGFACE THEN EMB_OLLAMA
                                 ELSE provider,
          tried |-> IF provider = HUGGINGFACE THEN <<"huggingface", "ollama">>
                    ELSE <<"ollama">>]

\* hf_ok: HuggingFaceEmbeddings(...) constructs.  Returns the client, the
\* value left in self.embedding_provider and the tiers tried, in order
_initialize_embeddings(provider, hf_ok, probe) ==
    IF provider = HUGGINGFACE
    THEN IF hf_ok
         THEN [raised |-> FALSE, embeddings |-> "HuggingFaceEmbeddings",
               embedding_provider |-> provider, tried |-> <<"huggingface">>]
         ELSE [raised |-> FALSE,
               embeddings |-> _initialize_ollama_embeddings(probe),
               embedding_provider |-> EMB_OLLAMA,
               tried |-> <<"huggingface">> \o OllamaTiers(probe)]
    ELSE [raised |-> FALSE, embeddings |-> _initialize_ollama_embeddings(probe),
          embedding_provider |-> provider, tried |-> OllamaTiers(probe)]

\* the store directory and its backup: "absent", "empty" (a fresh
\* directory), "data" (an index with vectors), "older data" (the index an
\* earlier backup kept) or "partial" (a broken copy, a half-removed store)
DbOutcomes == {"ok", "dimension_mismatch", "dimension_mismatch_copy_fails",
               "dimension_mismatch_rmtree_fails", "other_error"}

MismatchOutcomes == DbOutcomes \ {"ok", "other_error"}

\* as DbSteps, the store directory removed before it is copied
DbSteps_remove_first(disk, outcome) ==
    LET made == IF disk.store = "absent" THEN [disk EXCEPT !.store = "empty"]
                ELSE disk
        gone == [store |-> "absent", backup |-> "absent"]
    IN IF outcome \in MismatchOutcomes
       THEN <<made, gone, [store |-> "empty", backup |-> "absent"]>>
       ELSE <<made>>

\* what is on disk after each file-system call of _initialize_db: makedirs
\* of the store, then on a dimension mismatch rmtree of an earlier backup,
\* copytree, rmtree of the store, makedirs; a call that raises ends the run
DbSteps(disk, outcome) ==
    LET made == IF disk.store = "absent" THEN [disk EXCEPT !.store = "empty"]
                ELSE disk
        start == IF made.backup # "absent"
                 THEN <<made, [made EXCEPT !.backup = "absent"]>>
                 ELSE <<made>>
        copied == [made EXCEPT !.backup = made.store]
    IN CASE outcome = "dimension_mismatch_copy_fails" ->
              start \o <<[made EXCEPT !.backup = "partial"]>>
         [] outcome = "dimension_mismatch_rmtree_fails" ->
              start \o <<copied, [copied EXCEPT !.store = "partial"]>>
         [] outcome = "dimension_mismatch" ->
              start \o <<copied, [copied EXCEPT !.store = "absent"],
                         [copied EXCEPT !.store = "empty"]>>
         [] OTHER -> <<made>>

_initialize_db(emb, disk, outcome) ==
    LET steps == DbSteps(disk, outcome)
        last == steps[Len(steps)]
    IN IF outcome \in {"ok", "dimension_mismatch"}
       THEN [raised |-> FALSE, disk |-> last, steps |-> steps,
             vector_store |-> [embedding_function |-> emb]]
       ELSE [raised |-> TRUE, disk |-> last, steps |-> steps,
             vector_store |-> NONE]

\* VectorStore.add_documents: add is what the first add_documents of the index
\* does; on a dimension error the index is opened again and the add repeated
AddOutcomes == {"ok", "dimension_error", "other_error"}

add_documents(add, outcome) ==
    LET db == _initialize_db(embeddings, vs_disk, outcome)
    IN CASE add = "ok" ->
              [raised |-> FALSE, disk |-> [vs_disk EXCEPT !.store = "data"],
               vector_store |-> vector_store, steps |-> <<>>]
         [] add = "other_error" ->
              [raised |-> TRUE, disk |-> vs_disk,
               vector_store |-> vector_store, steps |-> <<>>]
         [] add = "dimension_error" ->
              IF db.raised
              THEN [raised |-> TRUE, disk |-> db.disk,
                    vector_store |-> vector_store, steps |-> db.steps]
              ELSE [raised |-> FALSE,
                    disk |-> [db.disk EXCEPT !.store = "data"],
                    vector_store |-> db.vector_store, steps |-> db.steps]

----------------------------------------------------------------------------
(* core/llm/llm_service.py: construction of the client and the chain *)

KeyName(provider) == EnumValue(provider)

ClientOf(provider) ==
    CASE provider = OPENAI -> "ChatOpenAI"
      [] provider = ANTHROPIC -> "ChatAnthropic"
      [] provider = GROQ -> "ChatGroq"
      [] provider = OLLAMA -> "ChatOllama"

\* the provider a client talks to
ProviderOfClient(client) ==
    CASE client = "ChatOpenAI" -> OPENAI
      [] client = "ChatAnthropic" -> ANTHROPIC
      [] client = "ChatGroq" -> GROQ
      [] client = "ChatOllama" -> OLLAMA

\* ChatGroq(api_key=ModelConfig.GROQ_API_KEY): the Groq client refuses a
\* missing key
ChatGroq(keys, provider_now) ==
    IF "groq" \in keys
    THEN [raised |-> FALSE, exc |-> <<>>, llm |-> "ChatGroq",
          model_provider |-> provider_now]
    ELSE [raised |-> TRUE, exc |-> <<"The api_key client option must be set">>,
          llm |-> NONE, model_provider |-> provider_now]

\* ollama_ok: ChatOllama answers the test invocation.  model_provider is the
\* value left in self.model_provider, also when the call raises;
\* primary_failed: the selected provider's own client could not be built;
\* fallbacks: how many times the Groq client was built in its place
_initialize_llm(provider, keys, ollama_ok) ==
    CASE provider \in {OPENAI, ANTHROPIC, GROQ} ->
           IF KeyName(provider) \in keys
           THEN [raised |-> FALSE, exc |-> <<>>, llm |-> ClientOf(provider),
                 model_provider |-> provider,
                 primary_failed |-> FALSE, fallbacks |-> 0]
           ELSE [raised |-> TRUE, exc |-> <<"API key not found">>,
                 llm |-> NONE, model_provider |-> provider,
                 primary_failed |-> TRUE, fallbacks |-> 0]
      [] provider = OLLAMA ->
           IF ollama_ok
           THEN [raised |-> FALSE, exc |-> <<>>, llm |-> "ChatOllama",
                 model_provider |-> provider,
                 primary_failed |-> FALSE, fallbacks |-> 0]
           ELSE ChatGroq(keys, GROQ)
                  @@ [primary_failed |-> TRUE, fallbacks |-> 1]
      [] OTHER -> ChatGroq(keys, provider)
                    @@ [primary_failed |-> FALSE, fallbacks |-> 0]

_initialize_default_chain(client) ==
    [kind |-> "LLMChain", prompt |-> "DEFAULT_PROMPT",
     input_variables |-> {"question"}, llm |-> client, retriever |-> NONE]

_initialize_rag_chain(client, vs) ==
    [kind |-> "ConversationalRetrievalChain", prompt |-> "RAG_PROMPT",
     input_variables |-> {"question", "chat_history"}, llm |-> client,
     retriever |-> vs]

\* tavily_ok: TavilySearch(...) constructs.  Returns the chain and whether
\* self.search_tool exists afterwards
_initialize_web_search_chain(client, has_key, tavily_ok, tool) ==
    IF ~has_key \/ ~tavily_ok
    THEN [chain |-> _initialize_default_chain(client), search_tool |-> tool]
    ELSE [chain |-> [kind |-> "LLMChain", prompt |-> "WEB_SEARCH_PROMPT",
                     input_variables |-> {"question", "search_results"},
                     llm |-> client, retriever |-> NONE],
          search_tool |-> TRUE]

_initialize_chain(mode, client, vs, has_key, tavily_ok, tool) ==
    CASE mode = DEFAULT ->
           [chain |-> _initialize_default_chain(client), search_tool |-> tool]
      [] mode = WEB_SEARCH ->
           _initialize_web_search_chain(client, has_key, tavily_ok, tool)
      [] OTHER ->
           [chain |-> _initialize_rag_chain(client, vs), search_tool |-> tool]

----------------------------------------------------------------------------
(* core/vector_store/chroma_store.py: retrieval *)

RECURSIVE HistoryLines(_)
HistoryLines(msgs) ==
    IF msgs = <<>> THEN <<>>
    ELSE <<IF Head(msgs).type = "human" THEN "User:" ELSE "Assistant:">>
         \o Head(msgs).content \o HistoryLines(Tail(msgs))

LastN(seq, n) ==
    IF Len(seq) > n THEN SubSeq(seq, Len(seq) - n + 1, Len(seq)) ELSE seq

_enhance_query_with_history(query, chat_history) ==
    IF Len(chat_history) = 0 THEN query
    ELSE <<"Previous conversation:">> \o HistoryLines(LastN(chat_history, 6))
         \o <<"Current question:">> \o query

----------------------------------------------------------------------------
(* core/llm/llm_service.py: the three answer paths *)

\* the model's answer to a prompt, as text: which client, which prompt,
\* the question put in it, and what the model chose to append
LLMReply(client, prompt, question, tail) == <<client, prompt>> \o question \o tail

LlmCall(prompt, question) ==
    [call |-> "llm", prompt |-> prompt, question |-> question]

Raised(exc, evs) == [raised |-> TRUE, exc |-> exc, text |-> <<>>, events |-> evs]
Returned(text, evs) == [raised |-> FALSE, exc |-> <<>>, text |-> text, events |-> evs]

\* self.chain.invoke({"question": query})["text"]: the chain refuses an
\* input dictionary that lacks one of its prompt's input variables
_get_default_response(ch, query, outcome) ==
    IF ch.kind # "LLMChain"
    THEN Raised(<<"'text'">>, <<LlmCall(ch.prompt, query)>>)
    ELSE IF ~(ch.input_variables \subseteq {"question"})
    THEN Raised(<<"Missing some input keys: {'search_results'}">>, <<>>)
    ELSE IF outcome = "raises"
    THEN Raised(<<"model backend unavailable">>, <<LlmCall(ch.prompt, query)>>)
    ELSE Returned(LLMReply(ch.llm, ch.prompt, query, <<>>),
                  <<LlmCall(ch.prompt, query)>>)

\* a retrieved passage: page_content and metadata['source'];
\* NoSourceKey stands for metadata without a 'source' key
NoSourceKey == "<no source key>"
Placeholders == {"context.txt", "filename.txt", "None"}

HasSeparator(source) ==
    source \in {"docs/manual.pdf", "C:\\docs\\manual.pdf", "uploads/context.txt",
                "uploads/", "data/guide.md"}

\* source.replace('\\', '/').split('/')[-1]
LastSegment(source) ==
    CASE source = "docs/manual.pdf" -> "manual.pdf"
      [] source = "C:\\docs\\manual.pdf" -> "manual.pdf"
      [] source = "uploads/context.txt" -> "context.txt"
      [] source = "uploads/" -> ""
      [] source = "data/guide.md" -> "guide.md"
      [] OTHER -> source

\* as CollectSources, every valid source appended
RECURSIVE CollectSources_all(_, _)
CollectSources_all(docs, sources) ==
    IF docs = <<>> THEN sources
    ELSE LET source == Head(docs).source
             name == IF HasSeparator(source) THEN LastSegment(source) ELSE source
         IN IF source = NoSourceKey \/ source = NONE \/ source = ""
               \/ source \in Placeholders
            THEN CollectSources_all(Tail(docs), sources)
            ELSE CollectSources_all(Tail(docs), Append(sources, name))

RECURSIVE CollectSources(_, _)
CollectSources(docs, sources) ==
    IF docs = <<>> THEN sources
    ELSE LET source == Head(docs).source
             name == IF HasSeparator(source) THEN LastSegment(source) ELSE source
         IN IF source = NoSourceKey \/ source = NONE \/ source = ""
               \/ source \in Placeholders
            THEN CollectSources(Tail(docs), sources)
            ELSE IF \E i \in 1..Len(sources) : sources[i] = name
                 THEN CollectSources(Tail(docs), sources)
                 ELSE CollectSources(Tail(docs), Append(sources, name))

\* bracketed last tokens a model may end its answer with
EndsWithBracket(content) ==
    Len(content) > 0 /\ content[Len(content)] \in
        {"[Source: filename.txt]", "[sources: example.com]", "[1]"}

\* '[Source' in content[content.rfind('['):]
LastBracketHasSource(content) ==
    content[Len(content)] = "[Source: filename.txt]"

\* 'source' in result[last_bracket:].lower()
LastBracketHasSourceLower(content) ==
    content[Len(content)] \in {"[Source: filename.txt]", "[sources: example.com]"}

DropLast(content) == SubSeq(content, 1, Len(content) - 1)

\* as CitationBlock, the plural form for any number of sources
CitationBlock_plural(sources) ==
    IF Len(sources) = 0 THEN <<>>
    ELSE <<"[Sources:">> \o sources \o <<"]">>

CitationBlock(sources) ==
    IF Len(sources) = 0 THEN <<>>
    ELSE IF Len(sources) = 1 THEN <<"[Source:", sources[1], "]">>
    ELSE <<"[Sources:">> \o sources \o <<"]">>

\* e.vs: the vector index answers or raises; e.docs: what it returns;
\* e.llm1: the model answers or raises; e.tail: what the model appends
_get_rag_response(client, query, chat_history, e) ==
    LET search == [call |-> "similarity_search", prompt |-> "",
                   question |-> _enhance_query_with_history(query, chat_history)]
        sources == CollectSources(e.docs, <<>>)
        ask == LlmCall("RAG_PROMPT", query)
        content == LLMReply(client, "RAG_PROMPT", query, e.tail)
        stripped == IF EndsWithBracket(content) /\ LastBracketHasSource(content)
                    THEN DropLast(content) ELSE content
    IN IF e.vs = "raises"
       THEN Raised(<<"vector index unavailable">>, <<search>>)
       ELSE IF e.llm1 = "raises"
       THEN Raised(<<"model backend unavailable">>, <<search, ask>>)
       ELSE Returned(stripped \o CitationBlock(sources), <<search, ask>>)

\* what search_tool.invoke returns
SearchOutcomes == {"list", "dict", "str", "other_type", "raises"}

RECURSIVE Urls(_)
Urls(results) ==
    IF results = <<>> THEN <<>>
    ELSE (IF Head(results).url \in {NONE, ""} THEN <<>> ELSE <<Head(results).url>>)
         \o Urls(Tail(results))

\* the try block of _get_web_search_response
WebSearchTry(client, tool, query, e) ==
    LET search == [call |-> "web_search", prompt |-> "", question |-> query]
        ask == LlmCall("web_search_inline_prompt", query)
        result == LLMReply(client, "web_search_inline_prompt", query, e.tail)
        urls == IF e.search \in {"list", "dict"} THEN Urls(e.results) ELSE <<>>
        stripped == IF EndsWithBracket(result) /\ Len(result) > 1
                       /\ LastBracketHasSourceLower(result)
                    THEN DropLast(result) ELSE result
    IN IF ~tool
       THEN Raised(<<"'LLM' object has no attribute 'search_tool'">>, <<>>)
       ELSE IF e.search = "raises"
       THEN Raised(<<"search backend unavailable">>, <<search>>)
       ELSE IF e.search = "other_type"
       THEN Raised(<<"Unexpected search results format">>, <<search>>)
       ELSE IF e.llm1 = "raises"
       THEN Raised(<<"model backend unavailable">>, <<search, ask>>)
       ELSE IF urls # <<>>
       THEN Returned(stripped \o <<"[Sources:">> \o urls \o <<"]">>, <<search, ask>>)
       ELSE Returned(result, <<search, ask>>)

\* the except branch: "Fall back to default mode"
WebSearchFallback(ch, query, outcome) == _get_default_response(ch, query, outcome)

_get_web_search_response(ch, client, tool, query, e) ==
    LET t == WebSearchTry(client, tool, query, e)
        f == WebSearchFallback(ch, query, e.llm2)
    IN IF ~t.raised THEN t
       ELSE [f EXCEPT !.events = t.events \o @]

----------------------------------------------------------------------------
(* core/llm/llm_service.py: get_response *)

\* line 217: the text stored as the user message and handed on
UserText_raw(query, filtered_query) == query
UserText(query, filtered_query) == filtered_query

\* line 237: the message of the except branch
ErrorMessage(exc) == <<"I encountered an error processing your request:">> \o exc

\* line 239: what the except branch returns
ErrorReturn_keeps_flag(error_msg, has_sensitive_data) ==
    [value |-> error_msg, flag |-> has_sensitive_data]
ErrorReturn(error_msg, has_sensitive_data) ==
    [value |-> error_msg, flag |-> FALSE]

\* lines 219-228
Dispatch(mode, query, chat_history, e) ==
    CASE mode = DEFAULT -> _get_default_response(chain, query, e.llm1)
      [] mode = WEB_SEARCH ->
           _get_web_search_response(chain, llm, search_tool, query, e)
      [] OTHER -> _get_rag_response(llm, query, chat_history, e)

\* The whole call.  e holds what the backends do during it.  The result has
\* the MemoryManager afterwards (m), the backend calls made (events) and
\* the outcome: propagated is TRUE when an exception leaves get_response,
\* failed when the except branch ran.
get_response(query, e) ==
    LET f == filter_text(enable_filter, query)
        text == UserText(query, f.text)
        u == add_user_message(MM, text, session_id, e.store1)
        d == IF u.raised THEN Raised(u.exc, <<>>)
             ELSE Dispatch(answer_mode, text, get_chat_history(u.m), e)
        a == add_ai_message(u.m, d.text, session_id, e.store2)
        tried == IF d.raised THEN [raised |-> TRUE, exc |-> d.exc, m |-> u.m]
                 ELSE a
        error_msg == ErrorMessage(tried.exc)
        h == add_ai_message(tried.m, error_msg, session_id, e.store2)
        er == ErrorReturn(error_msg, f.found)
        web_raised == answer_mode = WEB_SEARCH /\ ~u.raised
                      /\ WebSearchTry(llm, search_tool, text, e).raised
        out == [op |-> "get_response", query |-> query, filtered |-> text,
                user_appended |-> ~u.raised, web_raised |-> web_raised,
                fallback_model |-> IF web_raised THEN e.llm2 ELSE "unused",
                stores |-> <<e.store1, e.store2>>]
    IN IF ~tried.raised
       THEN [m |-> tried.m, events |-> d.events,
             ret |-> out @@ [propagated |-> FALSE, failed |-> FALSE,
                             value |-> d.text, flag |-> f.found]]
       ELSE [m |-> h.m, events |-> d.events,
             ret |-> out @@ [propagated |-> h.raised, failed |-> TRUE,
                             value |-> er.value, flag |-> er.flag]]

----------------------------------------------------------------------------
(* core/llm/llm_service.py: the setters *)

\* lines 405-416: a string is converted to the Enum member or refused
Coerce(enum, x) == IF IsStr(x) THEN EnumLookup(enum, x) ELSE x

change_model_provider(provider, ollama_ok, tavily_ok) ==
    LET p == Coerce(ModelProvider, provider)
        l == _initialize_llm(p, api_keys, ollama_ok)
        c == _initialize_chain(answer_mode, l.llm, vector_store, tavily_key,
                               tavily_ok, search_tool)
        old == [model_provider |-> model_provider, llm |-> llm,
                chain |-> chain, search_tool |-> search_tool]
        init == [selected |-> p, primary_failed |-> l.primary_failed,
                 fallbacks |-> l.fallbacks]
    IN IF IsStr(provider) /\ p = NONE
       THEN [ok |-> FALSE, selected |-> NONE, primary_failed |-> FALSE,
             fallbacks |-> 0] @@ old
       ELSE IF l.raised
       THEN [ok |-> FALSE, model_provider |-> l.model_provider] @@ init @@ old
       ELSE [ok |-> TRUE, model_provider |-> l.model_provider, llm |-> l.llm,
             chain |-> c.chain, search_tool |-> c.search_tool] @@ init

change_answer_mode_stores_first(mode, tavily_ok) ==
    LET a == Coerce(AnswerMode, mode)
    IN IF IsStr(mode) /\ a = NONE
       THEN [ok |-> FALSE, answer_mode |-> mode, chain |-> chain,
             search_tool |-> search_tool]
       ELSE LET c == _initialize_chain(a, llm, vector_store, tavily_key,
                                       tavily_ok, search_tool)
            IN [ok |-> TRUE, answer_mode |-> a, chain |-> c.chain,
                search_tool |-> c.search_tool]

change_answer_mode(mode, tavily_ok) ==
    LET a == Coerce(AnswerMode, mode)
        c == _initialize_chain(a, llm, vector_store, tavily_key, tavily_ok,
                               search_tool)
    IN IF IsStr(mode) /\ a = NONE
       THEN [ok |-> FALSE, answer_mode |-> answer_mode, chain |-> chain,
             search_tool |-> search_tool]
       ELSE [ok |-> TRUE, answer_mode |-> a, chain |-> c.chain,
             search_tool |-> c.search_tool]

\* MemoryManager._init_persistent_memory: pm_ok, Chroma(...) constructs
_init_persistent_memory(m, pm_ok) ==
    IF pm_ok THEN [m EXCEPT !.persistent_memory = TRUE]
    ELSE [m EXCEPT !.memory_mode = TRANSIENT]

\* MemoryManager.change_memory_mode
\* as mm_change_memory_mode, a switch starting from an empty buffer
mm_change_memory_mode_fresh_buffer(m, mode, pm_ok) ==
    IF mode = m.memory_mode THEN [ok |-> TRUE, m |-> m]
    ELSE LET m1 == [m EXCEPT !.memory_mode = mode, !.transient = <<>>]
         IN [ok |-> TRUE,
             m |-> IF mode = PERSISTENT /\ ~m1.persistent_memory
                   THEN _init_persistent_memory(m1, pm_ok) ELSE m1]

mm_change_memory_mode(m, mode, pm_ok) ==
    IF mode = m.memory_mode THEN [ok |-> TRUE, m |-> m]
    ELSE LET m1 == [m EXCEPT !.memory_mode = mode]
         IN [ok |-> TRUE,
             m |-> IF mode = PERSISTENT /\ ~m1.persistent_memory
                   THEN _init_persistent_memory(m1, pm_ok) ELSE m1]

UuidOf(n) == <<"uuid-1", "uuid-2", "uuid-3", "uuid-4", "uuid-5", "uuid-6">>[n]

\* MemoryManager.create_session
\* as create_session, the same identifier at every call
create_session_same == UuidOf(1)

create_session == UuidOf(next_uuid + 1)

\* LLM.change_memory_mode
change_memory_mode(mode, pm_ok) ==
    LET r == mm_change_memory_mode(MM, mode, pm_ok)
        fresh == mode = PERSISTENT /\ ~Truthy(session_id)
    IN [ok |-> r.ok, m |-> r.m,
        memory_mode |-> IF r.ok THEN mode ELSE memory_mode,
        session_id |-> IF r.ok /\ fresh THEN create_session ELSE session_id,
        next_uuid |-> IF r.ok /\ fresh THEN next_uuid + 1 ELSE next_uuid]

\* LLM.toggle_privacy_filter
toggle_privacy_filter(enable) == [ok |-> TRUE, enable_filter |-> enable]

\* VectorStore.change_embedding_provider
change_embedding_provider(provider, hf_ok, probe, outcome) ==
    LET e == _initialize_embeddings(provider, hf_ok, probe)
        db == _initialize_db(e.embeddings, vs_disk, outcome)
    IN IF e.raised
       THEN [ok |-> FALSE, embedding_provider |-> e.embedding_provider,
             embeddings |-> embeddings, disk |-> vs_disk,
             vector_store |-> vector_store, steps |-> <<>>,
             embed_raised |-> TRUE, tried |-> e.tried]
       ELSE [ok |-> ~db.raised, embedding_provider |-> e.embedding_provider,
             embeddings |-> e.embeddings, disk |-> db.disk,
             vector_store |-> IF db.raised THEN vector_store
                              ELSE db.vector_store,
             steps |-> db.steps,
             embed_raised |-> FALSE, tried |-> e.tried]

----------------------------------------------------------------------------
(* Session operations: MemoryManager, then LLM *)

\* as Replay, every message taken for a user message
Replay_all_human(messages) ==
    [k \in 1..Len(messages) |-> HumanMessage(messages[k].content)]

\* the messages of a session record, as add_user_message / add_ai_message
\* put them in the buffer
RECURSIVE Replay(_)
Replay(messages) ==
    IF messages = <<>> THEN <<>>
    ELSE <<IF Head(messages).role = "user"
           THEN HumanMessage(Head(messages).content)
           ELSE AIMessage(Head(messages).content)>> \o Replay(Tail(messages))

\* reading the session file: json.load answers or raises
ReadOutcomes == {"ok", "raises"}

\* as mm_load_session, without the final trim
mm_load_session_untrimmed(m, sid, read) ==
    IF m.memory_mode # PERSISTENT THEN [ok |-> FALSE, m |-> m]
    ELSE IF sid \notin DOMAIN m.files \/ read = "raises"
    THEN [ok |-> FALSE, m |-> [m EXCEPT !.transient = <<>>]]
    ELSE [ok |-> TRUE,
          m |-> [m EXCEPT !.transient = Replay(m.files[sid].messages)]]

\* MemoryManager.load_session: the buffer is cleared before the record is
\* looked for
mm_load_session(m, sid, read) ==
    IF m.memory_mode # PERSISTENT THEN [ok |-> FALSE, m |-> m]
    ELSE LET cleared == [m EXCEPT !.transient = <<>>]
         IN IF sid \notin DOMAIN m.files THEN [ok |-> FALSE, m |-> cleared]
            ELSE IF read = "raises" THEN [ok |-> FALSE, m |-> cleared]
            ELSE [ok |-> TRUE,
                  m |-> [cleared EXCEPT !.transient =
                           _trim_transient_memory(
                               Replay(m.files[sid].messages))]]

WithoutSession(files, sid) == [s \in DOMAIN files \ {sid} |-> files[s]]

DocsWithout(docs, sids) == SelectSeq(docs, LAMBDA d : d.session_id \notin sids)

\* MemoryManager.delete_session
mm_delete_session(m, sid, outcome) ==
    IF sid \in DOMAIN m.files /\ outcome = "remove_raises"
    THEN [ok |-> FALSE, m |-> m]
    ELSE LET m1 == [m EXCEPT !.files = WithoutSession(@, sid)]
         IN IF m.persistent_memory /\ outcome = "vector_delete_raises"
            THEN [ok |-> FALSE, m |-> m1]
            ELSE [ok |-> TRUE,
                  m |-> IF m.persistent_memory
                        THEN [m1 EXCEPT !.docs = DocsWithout(@, {sid})]
                        ELSE m1]

\* MemoryManager.clear_all_sessions; a remove that raises does so at the
\* first file
mm_clear_all_sessions(m, outcome) ==
    IF DOMAIN m.files # {} /\ outcome = "remove_raises"
    THEN [ok |-> FALSE, m |-> m]
    ELSE LET m1 == [m EXCEPT !.files = <<>>]
         IN IF m.persistent_memory /\ outcome = "vector_delete_raises"
            THEN [ok |-> FALSE, m |-> m1]
            ELSE [ok |-> TRUE,
                  m |-> IF m.persistent_memory
                        THEN [m1 EXCEPT !.docs = <<>>] ELSE m1]

\* the summary get_all_sessions makes of one session file
Summary(session_data) ==
    [session_id |-> session_data.session_id,
     title |-> session_data.title,
     created_at |-> session_data.created_at,
     updated_at |-> session_data.updated_at,
     message_count |-> Len(session_data.messages)]

\* as SortNewestFirst, oldest first
RECURSIVE SortOldestFirst(_)
SortOldestFirst(sessions) ==
    IF sessions = <<>> THEN <<>>
    ELSE LET rest == SortOldestFirst(Tail(sessions))
             x == Head(sessions)
             before == SelectSeq(rest, LAMBDA y : y.updated_at < x.updated_at)
             after == SelectSeq(rest, LAMBDA y : y.updated_at >= x.updated_at)
         IN before \o <<x>> \o after

\* sessions.sort(key=updated_at, reverse=True): stable, equal keys keep their
\* listing order
RECURSIVE SortNewestFirst(_)
SortNewestFirst(sessions) ==
    IF sessions = <<>> THEN <<>>
    ELSE LET rest == SortNewestFirst(Tail(sessions))
             x == Head(sessions)
             before == SelectSeq(rest, LAMBDA y : y.updated_at > x.updated_at)
             after == SelectSeq(rest, LAMBDA y : y.updated_at <= x.updated_at)
         IN before \o <<x>> \o after

\* MemoryManager.get_all_sessions: listing is the order of os.listdir; a read
\* that raises at file fail_at (0: none does) leaves the summaries made so
\* far, unsorted
mm_get_all_sessions(m, listing, fail_at) ==
    IF fail_at = 0
    THEN SortNewestFirst([k \in 1..Len(listing) |-> Summary(m.files[listing[k]])])
    ELSE [k \in 1..(fail_at - 1) |-> Summary(m.files[listing[k]])]

\* LLM.get_all_sessions
get_all_sessions(listing, fail_at) == mm_get_all_sessions(MM, listing, fail_at)

\* LLM.create_new_session
create_new_session ==
    [value |-> create_session, session_id |-> create_session,
     next_uuid |-> next_uuid + 1, m |-> [MM EXCEPT !.transient = <<>>]]

\* LLM.load_session
load_session(sid, read) ==
    LET r == mm_load_session(MM, sid, read)
    IN [ok |-> r.ok, m |-> r.m,
        session_id |-> IF r.ok THEN sid ELSE session_id]

\* LLM.delete_session
delete_session(sid, outcome) ==
    LET r == mm_delete_session(MM, sid, outcome)
    IN IF r.ok /\ session_id = sid
       THEN [ok |-> r.ok, session_id |-> NONE,
             m |-> [r.m EXCEPT !.transient = <<>>]]
       ELSE [ok |-> r.ok, session_id |-> session_id, m |-> r.m]

\* LLM.clear_all_sessions
clear_all_sessions(outcome) ==
    LET r == mm_clear_all_sessions(MM, outcome)
    IN IF r.ok
       THEN [ok |-> r.ok, session_id |-> NONE,
             m |-> [r.m EXCEPT !.transient = <<>>]]
       ELSE [ok |-> r.ok, session_id |-> session_id, m |-> r.m]

----------------------------------------------------------------------------
(* Construction: VectorStore.__init__, MemoryManager.__init__, LLM.__init__ *)

MemoryManager(mode, pm_ok) ==
    LET m == [memory_mode |-> mode, transient |-> <<>>,
              persistent_memory |-> FALSE, docs |-> <<>>,
              files |-> <<>>, clock |-> 0]
    IN IF mode = PERSISTENT THEN _init_persistent_memory(m, pm_ok) ELSE m

\* the k-th message of a conversation
Text(k) == <<IF k % 2 = 1 THEN "hello" ELSE "hi", ToString(k)>>

\* what an earlier run of the program leaves in the sessions directory and
\* in the memory collection: n messages under one session id
RECURSIVE EarlierRun(_, _)
EarlierRun(sid, n) ==
    IF n = 0 THEN MemoryManager(PERSISTENT, TRUE)
    ELSE LET m == EarlierRun(sid, n - 1)
         IN IF n % 2 = 1 THEN add_user_message(m, Text(n), sid, "ok").m
            ELSE add_ai_message(m, Text(n), sid, "ok").m

\* MemoryManager.__init__ over what an earlier run left on disk
MemoryManagerOver(stored, mode, pm_ok) ==
    [MemoryManager(mode, pm_ok) EXCEPT !.docs = stored.docs,
                                       !.files = stored.files,
                                       !.clock = stored.clock]

\* The state after api/main.py-style start-up: VectorStore(path, ep), then
\* LLM(vector_store, p, a, mmode).  A constructor that raises leaves no
\* engine, so such choices give no initial state.
ConstructedWith(m, keys, tk, ep, hf_ok, probe, disk0, dbo, p, a, mmode, ollama_ok, tavily_ok) ==
    LET e == _initialize_embeddings(ep, hf_ok, probe)
        db == _initialize_db(e.embeddings, disk0, dbo)
        l == _initialize_llm(p, keys, ollama_ok)
        c == _initialize_chain(a, l.llm, db.vector_store, tk, tavily_ok, FALSE)
    IN /\ ~e.raised /\ ~db.raised /\ ~l.raised
       /\ api_keys = keys /\ tavily_key = tk
       /\ calls = NoCalls
       /\ embedding_provider = e.embedding_provider
       /\ embeddings = e.embeddings
       /\ vector_store = db.vector_store
       /\ vs_disk = db.disk
       /\ model_provider = l.model_provider
       /\ llm = l.llm
       /\ answer_mode = a
       /\ chain = c.chain
       /\ search_tool = c.search_tool
       /\ memory_mode = mmode
       /\ session_id = NONE
       /\ enable_filter = TRUE
       /\ mm_memory_mode = m.memory_mode
       /\ transient_memory = m.transient
       /\ persistent_memory = m.persistent_memory
       /\ pm_docs = m.docs
       /\ session_files = m.files
       /\ clock = m.clock
       /\ next_uuid = 0
       /\ ret = [op |-> "__init__", arg |-> ep, tiers |-> e.tried,
                 selected |-> p, primary_failed |-> l.primary_failed,
                 fallbacks |-> l.fallbacks]
       /\ events = <<>>
       /\ appended = <<>>
       /\ ncalls = 0

\* LLM.__init__ with a fresh sessions directory and memory collection
Constructed(keys, tk, ep, hf_ok, probe, disk0, dbo, p, a, mmode, ollama_ok, tavily_ok, pm_ok) ==
    ConstructedWith(MemoryManager(mmode, pm_ok), keys, tk, ep, hf_ok, probe, disk0, dbo, p, a, mmode, ollama_ok, tavily_ok)

NoDisk == [store |-> "absent", backup |-> "absent"]
OldDisk == [store |-> "data", backup |-> "absent"]
\* a store filled again after an earlier recreation left a backup
BackedUpDisk == [store |-> "data", backup |-> "older data"]

\* what opening the store can do, given what is on disk
DbOutcomesFor(disk) ==
    IF disk.store = "data" THEN DbOutcomes ELSE {"ok", "other_error"}

----------------------------------------------------------------------------
(* Inputs *)

\* user queries; the second is the spec's privacy scenario
Queries == {<<"what is X?">>, <<"my email is", "a@b.com", "what is X?">>}

DocManual == [page_content |-> "X is ...", source |-> "docs/manual.pdf"]
DocPlaceholder == [page_content |-> "lorem", source |-> "filename.txt"]
DocGuide == [page_content |-> "see guide", source |-> "guide.md"]
DocLists == {<<DocManual, DocPlaceholder, DocManual, DocGuide>>}

Tails == {<<>>, <<"[Source: filename.txt]">>}

ResultA == [title |-> "X", content |-> "X is ...", url |-> "https://a.example"]
ResultNoUrl == [title |-> "Y", content |-> "Y is ...", url |-> ""]
ResultLists == {<<ResultA, ResultNoUrl>>}

Outcomes == {"ok", "raises"}

\* what the backends may do during one get_response, for the paths the
\* current configuration can take
Behaviour(llm1, llm2, tail, vs, docs, search, results) ==
    [llm1 |-> llm1, llm2 |-> llm2, tail |-> tail, vs |-> vs, docs |-> docs,
     search |-> search, results |-> results]

\* DEFAULT: one model call
DefaultBehaviours ==
    {Behaviour(o, "ok", <<>>, "ok", <<>>, "list", <<>>) : o \in Outcomes}

\* RAG: the index raises, or the model raises, or both answer
RagBehaviours ==
    {Behaviour("ok", "ok", <<>>, "raises", <<>>, "list", <<>>),
     Behaviour("raises", "ok", <<>>, "ok", <<>>, "list", <<>>)}
    \cup {Behaviour("ok", "ok", t, "ok", d, "list", <<>>) :
            t \in Tails, d \in DocLists}

\* WEB_SEARCH: the try block fails (search or model) and the fallback's
\* model call answers or raises, or the try block answers
WebBehaviours ==
    {Behaviour("ok", o2, <<>>, "ok", <<>>, s, <<>>) :
        o2 \in Outcomes, s \in {"raises", "other_type"}}
    \cup {Behaviour("raises", o2, <<>>, "ok", <<>>, "list", <<>>) :
            o2 \in Outcomes}
    \cup {Behaviour("ok", "ok", t, "ok", <<>>, s, r) :
            t \in Tails, s \in {"list", "dict"}, r \in ResultLists}
    \cup {Behaviour("ok", "ok", <<>>, "ok", <<>>, "str", <<>>)}

\* what the backends may do during one get_response, for the path the
\* current configuration takes; store1 and store2 are the outcomes of the
\* persistent store at the first and second append
BackendBehaviours ==
    LET paths == CASE answer_mode = DEFAULT -> DefaultBehaviours
                   [] answer_mode = WEB_SEARCH -> WebBehaviours
                   [] OTHER -> RagBehaviours
        stores == IF mm_memory_mode = PERSISTENT /\ Truthy(session_id)
                  THEN ({"ok", "add_documents_raises"}
                            \X {"ok", "add_documents_raises"})
                       \cup {<<"file_io_raises", "file_io_raises">>}
                  ELSE {<<"ok", "ok">>}
    IN {b @@ [store1 |-> s[1], store2 |-> s[2]] : b \in paths, s \in stores}

AnswerModeInputs == AnswerMode \cup {"default", "rag", "web_search", "bogus"}
ModelProviderInputs ==
    ModelProvider \cup {"openai", "anthropic", "groq", "ollama", "bogus"}
\* api/routers/settings.py hands the request's string to change_memory_mode
\* and change_embedding_provider
MemoryModeInputs == MemoryMode \cup {"transient", "persistent"}
EmbeddingProviderInputs == EmbeddingProvider \cup {"huggingface", "ollama"}

----------------------------------------------------------------------------
(* Actions: one per operation *)

GetResponse ==
    /\ ncalls < MaxQueries
    /\ \E query \in Queries, e \in BackendBehaviours :
         LET r == get_response(query, e)
         IN /\ SetMM(r.m)
            /\ ret' = r.ret
            /\ events' = r.events
    /\ ncalls' = ncalls + 1
    /\ UNCHANGED <<envVars, llmVars, vsVars, next_uuid, appended>>

\* the outcomes of a backend that the call does not reach are not drawn
OllamaOutcomes(provider) ==
    IF Coerce(ModelProvider, provider) = OLLAMA THEN BOOLEAN ELSE {TRUE}
TavilyOutcomes(mode) ==
    IF mode = WEB_SEARCH /\ tavily_key THEN BOOLEAN ELSE {TRUE}

ChangeModelProvider ==
    /\ \E provider \in ModelProviderInputs :
       \E ollama_ok \in OllamaOutcomes(provider),
          tavily_ok \in TavilyOutcomes(answer_mode) :
         LET r == change_model_provider(provider, ollama_ok, tavily_ok)
         IN /\ model_provider' = r.model_provider
            /\ llm' = r.llm
            /\ chain' = r.chain
            /\ search_tool' = r.search_tool
            /\ ret' = [op |-> "change_model_provider", arg |-> provider,
                       value |-> r.ok, selected |-> r.selected,
                       primary_failed |-> r.primary_failed,
                       fallbacks |-> r.fallbacks]
    /\ UNCHANGED <<envVars, answer_mode, memory_mode, session_id, enable_filter,
                   mmVars, vsVars, events, appended, ncalls>>

ChangeAnswerModeOn(inputs) ==
    /\ \E mode \in inputs :
       \E tavily_ok \in TavilyOutcomes(Coerce(AnswerMode, mode)) :
         LET r == change_answer_mode(mode, tavily_ok)
         IN /\ answer_mode' = r.answer_mode
            /\ chain' = r.chain
            /\ search_tool' = r.search_tool
            /\ ret' = [op |-> "change_answer_mode", arg |-> mode,
                       value |-> r.ok]
    /\ UNCHANGED <<envVars, model_provider, llm, memory_mode, session_id,
                   enable_filter, mmVars, vsVars, events, appended, ncalls>>

ChangeMemoryModeOn(inputs) ==
    /\ \E mode \in inputs :
       \E pm_ok \in (IF mode = PERSISTENT /\ ~persistent_memory
                     THEN BOOLEAN ELSE {TRUE}) :
         LET r == change_memory_mode(mode, pm_ok)
         IN /\ SetMM(r.m)
            /\ memory_mode' = r.memory_mode
            /\ session_id' = r.session_id
            /\ next_uuid' = r.next_uuid
            /\ ret' = [op |-> "change_memory_mode", arg |-> mode,
                       value |-> r.ok]
    /\ UNCHANGED <<envVars, model_provider, llm, answer_mode, chain, search_tool,
                   enable_filter, vsVars, events, appended, ncalls>>

\* as TogglePrivacyFilter, the conversation started anew
TogglePrivacyFilter_new_conversation ==
    /\ \E enable \in BOOLEAN :
         LET r == toggle_privacy_filter(enable)
         IN /\ enable_filter' = r.enable_filter
            /\ ret' = [op |-> "toggle_privacy_filter", arg |-> enable,
                       value |-> r.ok]
    /\ transient_memory' = <<>>
    /\ session_id' = NONE
    /\ UNCHANGED <<envVars, model_provider, llm, answer_mode, chain, search_tool,
                   memory_mode, mm_memory_mode, persistent_memory, pm_docs,
                   session_files, clock, vsVars, next_uuid, events, appended,
                   ncalls>>

TogglePrivacyFilter ==
    /\ \E enable \in BOOLEAN :
         LET r == toggle_privacy_filter(enable)
         IN /\ enable_filter' = r.enable_filter
            /\ ret' = [op |-> "toggle_privacy_filter", arg |-> enable,
                       value |-> r.ok]
    /\ UNCHANGED <<envVars, model_provider, llm, answer_mode, chain, search_tool,
                   memory_mode, session_id, mmVars, vsVars, events, appended,
                   ncalls>>

ChangeEmbeddingProvider ==
    /\ \E provider \in EmbeddingProviderInputs, hf_ok \in BOOLEAN,
          probe \in ProbeOutcomes, outcome \in DbOutcomesFor(vs_disk) :
         LET r == change_embedding_provider(provider, hf_ok, probe, outcome)
         IN /\ embedding_provider' = r.embedding_provider
            /\ embeddings' = r.embeddings
            /\ vector_store' = r.vector_store
            /\ vs_disk' = r.disk
            /\ ret' = [op |-> "change_embedding_provider", arg |-> provider,
                       value |-> r.ok, embed_raised |-> r.embed_raised,
                       tiers |-> r.tried, db |-> outcome, disks |-> r.steps]
    /\ UNCHANGED <<envVars, llmVars, mmVars, events, appended, ncalls>>

\* documents added to the index (core/storage/document_processor.py)
AddDocuments ==
    /\ \E add \in AddOutcomes :
       \E outcome \in (IF add = "dimension_error" THEN DbOutcomesFor(vs_disk)
                       ELSE {"ok"}) :
         LET r == add_documents(add, outcome)
         IN /\ vector_store' = r.vector_store
            /\ vs_disk' = r.disk
            /\ ret' = [op |-> "add_documents", arg |-> add,
                       value |-> ~r.raised, db |-> outcome,
                       disks |-> r.steps]
    /\ UNCHANGED <<envVars, llmVars, mmVars, embedding_provider, embeddings,
                   events, appended, ncalls>>

\* direct calls of the MemoryManager

AddUserMessage ==
    /\ Len(appended) < MaxAppends
    /\ \E message \in {<<"hello">>} :
         LET r == add_user_message(MM, message, NONE, "ok")
         IN /\ SetMM(r.m)
            /\ appended' = Append(appended, HumanMessage(message))
            /\ ret' = [op |-> "add_user_message", arg |-> message]
    /\ UNCHANGED <<envVars, llmVars, vsVars, next_uuid, events, ncalls>>

AddAiMessage ==
    /\ Len(appended) < MaxAppends
    /\ \E message \in {<<"hi">>} :
         LET r == add_ai_message(MM, message, NONE, "ok")
         IN /\ SetMM(r.m)
            /\ appended' = Append(appended, AIMessage(message))
            /\ ret' = [op |-> "add_ai_message", arg |-> message]
    /\ UNCHANGED <<envVars, llmVars, vsVars, next_uuid, events, ncalls>>

----------------------------------------------------------------------------
(* Specifications *)

\* the engine as api/main.py starts it, with every backend up
DefaultStart ==
    Constructed({"groq"}, TRUE, HUGGINGFACE, TRUE, "200", NoDisk, "ok",
                GROQ, RAG, TRANSIENT, TRUE, TRUE, TRUE)

\* SpecMemory: the MemoryManager's buffer under direct appends
\* session ids a caller can pass
SessionArgs ==
    {NONE, "", "missing"} \cup {session_id} \cup DOMAIN session_files
        \cup {UuidOf(k) : k \in 1..next_uuid}

\* MemoryManager.add_user_message(message, session_id) called directly; the
\* two roles alternate
AddUserMessageTo ==
    /\ Len(appended) < MaxStored
    /\ Len(appended) % 2 = 0
    /\ \E sid \in {NONE, "", session_id} :
       \E outcome \in (IF mm_memory_mode = PERSISTENT /\ Truthy(sid)
                       THEN StoreOutcomes ELSE {"ok"}) :
         LET message == Text(Len(appended) + 1)
             r == add_user_message(MM, message, sid, outcome)
         IN /\ SetMM(r.m)
            /\ appended' = Append(appended,
                                  [sid |-> sid, msg |-> HumanMessage(message),
                                   mode |-> mm_memory_mode,
                                   outcome |-> outcome])
            /\ ret' = [op |-> "add_user_message", arg |-> message,
                       sid |-> sid, outcome |-> outcome]
    /\ UNCHANGED <<envVars, llmVars, vsVars, next_uuid, events, ncalls>>

\* MemoryManager.add_ai_message(message, session_id) called directly
AddAiMessageTo ==
    /\ Len(appended) < MaxStored
    /\ Len(appended) % 2 = 1
    /\ \E sid \in {NONE, "", session_id} :
       \E outcome \in (IF mm_memory_mode = PERSISTENT /\ Truthy(sid)
                       THEN StoreOutcomes ELSE {"ok"}) :
         LET message == Text(Len(appended) + 1)
             r == add_ai_message(MM, message, sid, outcome)
         IN /\ SetMM(r.m)
            /\ appended' = Append(appended,
                                  [sid |-> sid, msg |-> AIMessage(message),
                                   mode |-> mm_memory_mode,
                                   outcome |-> outcome])
            /\ ret' = [op |-> "add_ai_message", arg |-> message,
                       sid |-> sid, outcome |-> outcome]
    /\ UNCHANGED <<envVars, llmVars, vsVars, next_uuid, events, ncalls>>

CreateNewSession ==
    /\ LET r == create_new_session
       IN /\ SetMM(r.m)
          /\ session_id' = r.session_id
          /\ next_uuid' = r.next_uuid
          /\ ret' = [op |-> "create_new_session", arg |-> NONE,
                     value |-> r.value]
    /\ UNCHANGED <<envVars, model_provider, llm, answer_mode, chain,
                   search_tool, memory_mode, enable_filter, vsVars, events,
                   appended, ncalls>>

LoadSession ==
    /\ \E sid \in SessionArgs \ {NONE, ""} :
       \E read \in (IF sid \in DOMAIN session_files
                    THEN ReadOutcomes ELSE {"ok"}) :
         LET r == load_session(sid, read)
         IN /\ SetMM(r.m)
            /\ session_id' = r.session_id
            /\ ret' = [op |-> "load_session", arg |-> sid, value |-> r.ok,
                       read |-> read]
    /\ UNCHANGED <<envVars, model_provider, llm, answer_mode, chain,
                   search_tool, memory_mode, enable_filter, vsVars, next_uuid,
                   events, appended, ncalls>>

\* os.remove of a session file and persistent_memory.delete(where=...): a
\* remove needs a file, a delete needs the collection
DeleteOutcomesOf(sids) ==
    {"ok"} \cup (IF sids \cap DOMAIN session_files # {}
                 THEN {"remove_raises"} ELSE {})
           \cup (IF persistent_memory THEN {"vector_delete_raises"} ELSE {})

DeleteSession ==
    /\ \E sid \in SessionArgs \ {NONE, ""} :
       \E outcome \in DeleteOutcomesOf({sid}) :
         LET r == delete_session(sid, outcome)
         IN /\ SetMM(r.m)
            /\ session_id' = r.session_id
            /\ ret' = [op |-> "delete_session", arg |-> sid, value |-> r.ok,
                       outcome |-> outcome]
    /\ UNCHANGED <<envVars, model_provider, llm, answer_mode, chain,
                   search_tool, memory_mode, enable_filter, vsVars, next_uuid,
                   events, appended, ncalls>>

ClearAllSessions ==
    /\ \E outcome \in DeleteOutcomesOf(DOMAIN session_files) :
         LET r == clear_all_sessions(outcome)
         IN /\ SetMM(r.m)
            /\ session_id' = r.session_id
            /\ ret' = [op |-> "clear_all_sessions", arg |-> NONE,
                       value |-> r.ok, outcome |-> outcome]
    /\ UNCHANGED <<envVars, model_provider, llm, answer_mode, chain,
                   search_tool, memory_mode, enable_filter, vsVars, next_uuid,
                   events, appended, ncalls>>

\* the orders in which os.listdir can give the session files
Listings ==
    LET n == Cardinality(DOMAIN session_files)
    IN {f \in [1..n -> DOMAIN session_files] :
          \A i, j \in 1..n : i # j => f[i] # f[j]}

GetAllSessions ==
    /\ \E listing \in Listings, fail_at \in 0..Cardinality(DOMAIN session_files) :
         ret' = [op |-> "get_all_sessions", arg |-> NONE,
                 value |-> get_all_sessions(listing, fail_at),
                 listing |-> listing, fail_at |-> fail_at]
    /\ UNCHANGED <<envVars, llmVars, mmVars, vsVars, next_uuid, events,
                   appended, ncalls>>

\* metadata['source'] values of retrieved passages
SourceValues ==
    {NoSourceKey, "", "filename.txt", "manual.pdf", "docs/manual.pdf",
     "uploads/context.txt", "uploads/", "guide.md"}

\* url values of search results; NONE: the result has no 'url' key
UrlValues == {NONE, "", "https://a.example", "https://b.example"}

\* what a model may put after its answer
AnswerTails == Tails \cup {<<"[sources: example.com]">>, <<"[1]">>}

SeqsUpTo(S, n) == UNION {[1..k -> S] : k \in 0..n}

\* LLM._get_rag_response with the index and the model answering
RagAnswer ==
    /\ ncalls = 0
    /\ \E sources \in SeqsUpTo(SourceValues, MaxDocs), tail \in AnswerTails :
         LET docs == [k \in 1..Len(sources) |->
                        [page_content |-> "passage", source |-> sources[k]]]
             query == <<"what is X?">>
             e == Behaviour("ok", "ok", tail, "ok", docs, "list", <<>>)
             r == _get_rag_response(llm, query, get_chat_history(MM), e)
         IN ret' = [op |-> "_get_rag_response", docs |-> docs, tail |-> tail,
                    sources |-> CollectSources(docs, <<>>),
                    reply |-> LLMReply(llm, "RAG_PROMPT", query, tail),
                    value |-> r.text]
    /\ ncalls' = 1
    /\ UNCHANGED <<envVars, llmVars, mmVars, vsVars, next_uuid, events,
                   appended>>

\* the try block of LLM._get_web_search_response with the search and the
\* model answering
WebAnswer ==
    /\ ncalls = 0
    /\ \E urls \in SeqsUpTo(UrlValues, MaxResults), tail \in AnswerTails,
          search \in {"list", "dict"} :
         LET results == [k \in 1..Len(urls) |->
                           [title |-> "X", content |-> "X is ...",
                            url |-> urls[k]]]
             query == <<"what is X?">>
             e == Behaviour("ok", "ok", tail, "ok", <<>>, search, results)
             r == WebSearchTry(llm, TRUE, query, e)
         IN ret' = [op |-> "_get_web_search_response", results |-> results,
                    tail |-> tail,
                    reply |-> LLMReply(llm, "web_search_inline_prompt",
                                       query, tail),
                    value |-> r.text]
    /\ ncalls' = 1
    /\ UNCHANGED <<envVars, llmVars, mmVars, vsVars, next_uuid, events,
                   appended>>

\* words of a user text
Tokens == SensitiveTokens \cup {"my data is", "what is X?"}

\* The texts on which substitution token by token is what re.sub does on
\* the whole text: no match of a pattern reaches from one token into a later
\* one.  The card pattern (?:\d{4}[\s-]?){4} runs from the last four digits
\* of the SSN token into a following token of digits, and [^@]+@ of the URL
\* pattern runs from the first URL token, once its address is masked, to
\* the "@" of a later URL token.
TokenWise(text) ==
    /\ \A i \in 1..(Len(text) - 1) :
          ~(/\ text[i] = "123-45-6789"
            /\ text[i + 1] \in {"4111 1111 1111 1111",
                                "12345678901234567890"})
    /\ \A i, j \in 1..Len(text) :
          ~(/\ i < j
            /\ text[i] = "https://bob:pw@host.com/x"
            /\ text[j] \in {"http://u:p@10.0.0.5/db",
                            "a@b.co1234567890123456"})

\* PrivacyFilter.filter_text called on a text
FilterText ==
    /\ ncalls = 0
    /\ \E text \in SeqsUpTo(Tokens, MaxTokens) :
         /\ TokenWise(text)
         /\ LET r == filter_text(enable_filter, text)
            IN ret' = [op |-> "filter_text", arg |-> text,
                       enable |-> enable_filter, value |-> r.text,
                       found |-> r.found]
    /\ ncalls' = 1
    /\ UNCHANGED <<envVars, llmVars, mmVars, vsVars, next_uuid, events,
                   appended>>

InitMemory == DefaultStart
NextMemory == AddUserMessage \/ AddAiMessage
SpecMemory == InitMemory /\ [][NextMemory]_vars

\* SpecEngine: queries under every answer mode, memory mode and filter
\* setting, with failing backends; a behaviour ends with its last query
InitEngine ==
    \E tk \in BOOLEAN :
        Constructed({"groq"}, tk, HUGGINGFACE, TRUE, "200", NoDisk, "ok",
                    GROQ, RAG, TRANSIENT, TRUE, TRUE, TRUE)
NextEngine ==
    /\ ncalls < MaxQueries
    /\ \/ GetResponse
       \/ ChangeAnswerModeOn(AnswerMode)
       \/ ChangeMemoryModeOn(MemoryMode)
       \/ TogglePrivacyFilter
SpecEngine == InitEngine /\ [][NextEngine]_vars

\* SpecConfig: the setters, under every set of API keys
InitConfig ==
    \E keys \in SUBSET {"openai", "anthropic", "groq"}, tk \in BOOLEAN,
       p \in ModelProvider, a \in AnswerMode, mmode \in MemoryMode,
       ollama_ok, tavily_ok, pm_ok \in BOOLEAN :
        Constructed(keys, tk, HUGGINGFACE, TRUE, "200", NoDisk, "ok",
                    p, a, mmode, ollama_ok, tavily_ok, pm_ok)
NextConfig ==
    \/ ChangeModelProvider
    \/ ChangeAnswerModeOn(AnswerModeInputs)
    \/ ChangeMemoryModeOn(MemoryMode)
    \/ TogglePrivacyFilter
SpecConfig == InitConfig /\ [][NextConfig]_vars

\* SpecModes: the two mode setters with the values their callers pass
InitModes ==
    \E tk \in BOOLEAN, a \in AnswerMode, mmode \in MemoryMode,
       tavily_ok, pm_ok \in BOOLEAN :
        Constructed({"groq"}, tk, HUGGINGFACE, TRUE, "200", NoDisk, "ok",
                    GROQ, a, mmode, TRUE, tavily_ok, pm_ok)
NextModes ==
    \/ ChangeAnswerModeOn(AnswerModeInputs)
    \/ ChangeMemoryModeOn(MemoryModeInputs)
SpecModes == InitModes /\ [][NextModes]_vars

\* SpecEmbed: the VectorStore's embedding initialisation and its changes
InitEmbed ==
    \E ep \in EmbeddingProvider, hf_ok \in BOOLEAN, probe \in ProbeOutcomes,
       disk0 \in {NoDisk, OldDisk} :
      \E dbo \in DbOutcomesFor(disk0) :
        Constructed({"groq"}, TRUE, ep, hf_ok, probe, disk0, dbo,
                    GROQ, RAG, TRANSIENT, TRUE, TRUE, TRUE)
NextEmbed == ChangeEmbeddingProvider
SpecEmbed == InitEmbed /\ [][NextEmbed]_vars

\* what earlier runs may have left under the session id "old"
StoredRuns ==
    {EarlierRun("old", 0), EarlierRun("old", MEMORY_MESSAGE_LIMIT + 2)}

\* SpecStore: the vector store opened, filled and opened again under another
\* embedding
InitStore ==
    \E disk0 \in {NoDisk, OldDisk, BackedUpDisk} :
      \E dbo \in DbOutcomesFor(disk0) :
        Constructed({"groq"}, TRUE, HUGGINGFACE, TRUE, "200", disk0, dbo,
                    GROQ, RAG, TRANSIENT, TRUE, TRUE, TRUE)
NextStore == ChangeEmbeddingProvider \/ AddDocuments
SpecStore == InitStore /\ [][NextStore]_vars

\* sessions: create, append under an id, load, switch the memory mode
InitRoundTrip ==
    \E stored \in StoredRuns, mmode \in MemoryMode :
        ConstructedWith(MemoryManagerOver(stored, mmode, TRUE),
                        {"groq"}, TRUE, HUGGINGFACE, TRUE, "200", NoDisk, "ok",
                        GROQ, DEFAULT, mmode, TRUE, TRUE)
NextRoundTrip ==
    \/ (next_uuid < MaxSessions /\ CreateNewSession)
    \/ AddUserMessageTo
    \/ AddAiMessageTo
    \/ LoadSession
    \/ ((next_uuid < MaxSessions \/ Truthy(session_id))
          /\ ChangeMemoryModeOn(MemoryMode))
SpecRoundTrip == InitRoundTrip /\ [][NextRoundTrip]_vars

\* the whole session lifecycle, with queries
InitSessions ==
    \E mmode \in MemoryMode :
        ConstructedWith(MemoryManagerOver(EarlierRun("old", 2), mmode, TRUE),
                        {"groq"}, TRUE, HUGGINGFACE, TRUE, "200", NoDisk, "ok",
                        GROQ, DEFAULT, mmode, TRUE, TRUE)
NextSessions ==
    \/ (next_uuid < MaxSessions /\ CreateNewSession)
    \/ LoadSession
    \/ ((next_uuid < MaxSessions \/ Truthy(session_id))
          /\ ChangeMemoryModeOn(MemoryMode))
    \/ DeleteSession
    \/ ClearAllSessions
    \/ GetResponse
SpecSessions == InitSessions /\ [][NextSessions]_vars

\* several sessions: create, append, load, list
InitListing == InitSessions
NextListing ==
    \/ (next_uuid < MaxListed /\ CreateNewSession)
    \/ AddUserMessageTo
    \/ AddAiMessageTo
    \/ LoadSession
    \/ GetAllSessions
SpecListing == InitListing /\ [][NextListing]_vars

\* SpecOperations: the nine mode-change and session operations of the engine,
\* with the failures their backends and stores can have
InitOperations ==
    ConstructedWith(MemoryManagerOver(EarlierRun("old", 2), TRANSIENT, TRUE),
                    {"groq"}, TRUE, HUGGINGFACE, TRUE, "200", NoDisk, "ok",
                    GROQ, DEFAULT, TRANSIENT, TRUE, TRUE)
NextOperations ==
    \/ ChangeModelProvider
    \/ ChangeAnswerModeOn(AnswerMode \cup {"bogus"})
    \/ ((next_uuid < MaxSessions \/ Truthy(session_id))
          /\ ChangeMemoryModeOn(MemoryMode))
    \/ TogglePrivacyFilter
    \/ (next_uuid < MaxSessions /\ CreateNewSession)
    \/ LoadSession
    \/ DeleteSession
    \/ ClearAllSessions
    \/ GetAllSessions
SpecOperations == InitOperations /\ [][NextOperations]_vars

\* citation assembly over all short lists of passages and search results:
\* one answer from the constructed engine, the assembly reading nothing else
InitCitations == DefaultStart
NextCitations == RagAnswer \/ WebAnswer
SpecCitations == InitCitations /\ [][NextCitations]_vars

\* the privacy filter over all short texts, enabled or disabled
InitFilter == DefaultStart
NextFilter == TogglePrivacyFilter \/ FilterText
SpecFilter == InitFilter /\ [][NextFilter]_vars

Init == InitConfig
Next == NextConfig
Spec == SpecConfig

----------------------------------------------------------------------------
(* Properties *)

Min(a, b) == IF a < b THEN a ELSE b

\* t is raw with every sensitive token replaced by text holding a marker
CarriesMarker(tok) ==
    tok \in Masks \cup {"https://bob:[EMAIL REDACTED]/x",
                       "[URL WITH CREDENTIALS REDACTED] ADDRESS REDACTED]/db",
                       "[CREDIT CARD REDACTED]7890"}
IsRedactionOf(t, raw) ==
    /\ Len(t) = Len(raw)
    /\ \A i \in 1..Len(raw) :
         IF raw[i] \in SensitiveTokens THEN CarriesMarker(t[i]) ELSE t[i] = raw[i]

Suffix(seq, n) == SubSeq(seq, Len(seq) - n + 1, Len(seq))

\* C1: after every append the transient buffer holds at most
\* MEMORY_MESSAGE_LIMIT messages, and they are exactly the most recent
\* min(limit, total) appended messages in their original order (eviction
\* takes the oldest, never the newest).
C1_BufferHoldsMostRecent ==
    /\ Len(transient_memory) = Min(MEMORY_MESSAGE_LIMIT, Len(appended))
    /\ \A i \in 1..Len(transient_memory) :
         transient_memory[i] =
            appended[Len(appended) - Len(transient_memory) + i]

C1_Witness ==
    /\ Len(appended) > MEMORY_MESSAGE_LIMIT + 1
    /\ Len(transient_memory) = MEMORY_MESSAGE_LIMIT
    /\ transient_memory[1] # appended[1]
    /\ transient_memory[MEMORY_MESSAGE_LIMIT] = appended[Len(appended)]

\* C2: with the privacy filter enabled, everything one get_response call
\* stores or hands to a backend is the filtered query, never the raw one:
\* the user message put in the transient buffer, every user message the
\* call adds to a session record or to the semantic store, and the
\* question of every retrieval, web-search and model call; and a call that
\* succeeds on a query with sensitive data returns the flag TRUE.
C2_FilteredBeforeUse ==
    [][(ncalls' = ncalls + 1 /\ enable_filter) =>
        LET raw == ret'.query
            n == Len(transient_memory')
        IN /\ ret'.user_appended =>
                /\ n >= 2
                /\ transient_memory'[n - 1].type = "human"
                /\ IsRedactionOf(transient_memory'[n - 1].content, raw)
           /\ \A i \in 1..Len(pm_docs') :
                (i > Len(pm_docs) /\ pm_docs'[i].role = "user")
                    => IsRedactionOf(pm_docs'[i].page_content, raw)
           /\ \A sid \in DOMAIN session_files' :
                \A i \in 1..Len(session_files'[sid].messages) :
                  LET old == IF sid \in DOMAIN session_files
                             THEN Len(session_files[sid].messages) ELSE 0
                      msg == session_files'[sid].messages[i]
                  IN (i > old /\ msg.role = "user")
                        => IsRedactionOf(msg.content, raw)
           /\ \A k \in 1..Len(events') :
                /\ Len(events'[k].question) >= Len(raw)
                /\ IsRedactionOf(Suffix(events'[k].question, Len(raw)), raw)
           /\ (~ret'.failed /\ HasSensitiveToken(raw)) => ret'.flag = TRUE
    ]_vars

C2_Witness ==
    /\ ret.op = "get_response" /\ enable_filter
    /\ HasSensitiveToken(ret.query)
    /\ ~ret.failed /\ ret.flag = TRUE
    /\ Len(events) >= 2
    /\ Truthy(session_id) /\ session_id \in DOMAIN session_files
    /\ \E i \in 1..Len(session_files[session_id].messages) :
         LET msg == session_files[session_id].messages[i]
         IN msg.role = "user" /\ \E j \in 1..Len(msg.content) :
              msg.content[j] = "[EMAIL REDACTED]"
    /\ \E j \in 1..Len(transient_memory[1].content) :
         transient_memory[1].content[j] = "[EMAIL REDACTED]"

\* C3: get_response never lets an exception reach its caller: whatever the
\* model, the vector index, the web search and the persistent store do,
\* the call returns an (answer, flag) pair.
C3_NeverPropagates ==
    ret.op = "get_response" =>
        /\ ~ret.propagated
        /\ Len(ret.value) > 0
        /\ ret.flag \in BOOLEAN

\* a backend raised while the persistent store was failing too
C3_Witness ==
    /\ ret.op = "get_response" /\ ret.failed /\ ~ret.propagated
    /\ mm_memory_mode = PERSISTENT /\ Truthy(session_id)
    /\ clock = 2 /\ pm_docs = <<>>

\* C4: when get_response fails after the user message was appended, the
\* buffer gains that user message followed by exactly one assistant message
\* carrying the error text, and the call returns that text with the flag
\* FALSE, whatever the filter found.
C4_ErrorRecordedAndReturned ==
    [][(ncalls' = ncalls + 1 /\ ret'.failed /\ ret'.user_appended) =>
        LET grown == transient_memory
                       \o <<[type |-> "human", content |-> ret'.filtered],
                            [type |-> "ai", content |-> ret'.value]>>
        IN /\ transient_memory'
                = Suffix(grown, Min(MEMORY_MESSAGE_LIMIT, Len(grown)))
           /\ Head(ret'.value)
                = "I encountered an error processing your request:"
           /\ Len(ret'.value) > 1
           /\ ret'.flag = FALSE
           /\ ~ret'.propagated
    ]_vars

C4_Witness ==
    /\ ret.op = "get_response" /\ ret.failed /\ ret.user_appended
    /\ enable_filter /\ HasSensitiveToken(ret.query)
    /\ ret.flag = FALSE
    /\ Len(transient_memory) = 2
    /\ transient_memory[2] = [type |-> "ai", content |-> ret.value]

\* C5: in WEB_SEARCH mode, whenever the web-search step raises, get_response
\* returns the answer DEFAULT mode gives for the same filtered question (the
\* model asked with the bare-question prompt) and surfaces no error; stated
\* for the calls in which the model answers the fallback's request.
C5_WebSearchFallsBackToDefault ==
    (ret.op = "get_response" /\ ret.web_raised /\ ret.fallback_model = "ok") =>
        /\ ~ret.failed
        /\ ret.value = LLMReply(llm, "DEFAULT_PROMPT", ret.filtered, <<>>)
        /\ events[Len(events)] = LlmCall("DEFAULT_PROMPT", ret.filtered)

\* the recorded configuration is coherent: the provider names the client,
\* the chain is built on the client and for the answer mode
Coherent(provider, client, mode, ch) ==
    /\ provider \in ModelProvider
    /\ ProviderOfClient(client) = provider
    /\ ch.llm = client
    /\ mode \in AnswerMode
    /\ ch.prompt = CASE mode = DEFAULT -> "DEFAULT_PROMPT"
                     [] mode = RAG -> "RAG_PROMPT"
                     [] mode = WEB_SEARCH ->
                          IF ch.prompt = "WEB_SEARCH_PROMPT"
                          THEN "WEB_SEARCH_PROMPT" ELSE "DEFAULT_PROMPT"

\* C6: every setter is atomic: after a call that returns success the
\* recorded provider and mode, the client and the chain all belong to the
\* new configuration; after a call that returns failure the recorded
\* provider and modes, the client, the chain and the filter setting are
\* exactly what they were before (in particular the recorded provider is
\* unchanged when the client's construction raises)
C6_SettersAtomic ==
    [][(ret'.op \in {"change_model_provider", "change_answer_mode",
                     "change_memory_mode", "toggle_privacy_filter"}) =>
        IF ret'.value
        THEN Coherent(model_provider', llm', answer_mode', chain')
        ELSE /\ model_provider' = model_provider
             /\ llm' = llm
             /\ chain' = chain
             /\ answer_mode' = answer_mode
             /\ memory_mode' = memory_mode
             /\ mm_memory_mode' = mm_memory_mode
             /\ enable_filter' = enable_filter
    ]_vars

\* C7: a change_answer_mode call that returns failure leaves the answer
\* mode and the chain as they were before the call.
C7_FailedAnswerModeChangeKeepsMode ==
    [][(ret'.op = "change_answer_mode" /\ ret'.value = FALSE) =>
        /\ answer_mode' = answer_mode
        /\ chain' = chain
        /\ search_tool' = search_tool
    ]_vars

C7_Witness ==
    /\ ret.op = "change_answer_mode" /\ ret.value = FALSE
    /\ ret.arg = "bogus"
    /\ answer_mode = WEB_SEARCH /\ chain.prompt = "WEB_SEARCH_PROMPT"

\* C8: an unsupported mode value is refused and never stored: the answer
\* mode is always a member of AnswerMode, the memory mode of the engine and
\* of the MemoryManager always a member of MemoryMode, and
\* change_memory_mode with a value that is no MemoryMode member returns
\* FALSE.
C8_ModesAlwaysMembers ==
    /\ answer_mode \in AnswerMode
    /\ memory_mode \in MemoryMode
    /\ mm_memory_mode \in MemoryMode
    /\ (ret.op = "change_memory_mode" /\ ret.arg \notin MemoryMode)
          => ret.value = FALSE

\* C9: the recorded model_provider always names the provider of the client
\* installed in self.llm.
C9_RecordedProviderIsActive ==
    /\ model_provider \in ModelProvider
    /\ ProviderOfClient(llm) = model_provider

\* C10: the recorded embedding_provider always identifies the embedding
\* client in use: HUGGINGFACE only with the HuggingFace client, OLLAMA only
\* with the Ollama client, and neither while the hash-based embedding is
\* active.
C10_RecordedEmbeddingIsActive ==
    /\ embedding_provider = HUGGINGFACE => embeddings = "HuggingFaceEmbeddings"
    /\ embedding_provider = EMB_OLLAMA => embeddings = "OllamaEmbeddings"
    /\ embeddings = "FallbackEmbeddings"
          => embedding_provider \notin {HUGGINGFACE, EMB_OLLAMA}

\* C11: an initialisation of the model client whose selected provider
\* cannot be built (key missing, Ollama down) builds the Groq client in its
\* place exactly once, and fails only if that fails too (no Groq key); no
\* initialisation falls back more than once, none falls back when the
\* selected client was built.  A selected Groq has nothing to fall back to.
C11_OneFallbackToGroq ==
    /\ ret.op \in {"__init__", "change_model_provider"} => ret.fallbacks <= 1
    /\ (ret.op = "change_model_provider" /\ ret.selected \in ModelProvider) =>
         /\ ~ret.primary_failed => ret.fallbacks = 0
         /\ (ret.primary_failed /\ ret.selected # GROQ) =>
              /\ ret.fallbacks = 1
              /\ ret.value = ("groq" \in api_keys)
              /\ ret.value => (llm = "ChatGroq" /\ model_provider = GROQ)

TierRuns ==
    {<<"huggingface">>, <<"huggingface", "ollama">>,
     <<"huggingface", "ollama", "hash">>, <<"ollama">>, <<"ollama", "hash">>}

ClientOfTier(tier) ==
    CASE tier = "huggingface" -> "HuggingFaceEmbeddings"
      [] tier = "ollama" -> "OllamaEmbeddings"
      [] tier = "hash" -> "FallbackEmbeddings"

Mine(sid) == SelectSeq(appended, LAMBDA a : a.sid = sid)
MsgsOf(entries) == [k \in 1..Len(entries) |-> entries[k].msg]
Created == {UuidOf(k) : k \in 1..next_uuid}

C14_LoadSession ==
    [][ret'.op = "load_session" =>
         IF mm_memory_mode = TRANSIENT \/ ret'.arg \notin DOMAIN session_files
         THEN ret'.value = FALSE
         ELSE ret'.read = "ok" =>
                LET msgs == session_files[ret'.arg].messages
                    n == Min(Len(msgs), MEMORY_MESSAGE_LIMIT)
                IN /\ ret'.value = TRUE
                   /\ Len(transient_memory') = n
                   /\ \A k \in 1..n :
                        LET msg == msgs[Len(msgs) - n + k]
                        IN /\ transient_memory'[k].content = msg.content
                           /\ transient_memory'[k].type =
                                 (IF msg.role = "user" THEN "human" ELSE "ai")
      ]_vars

C14_Witness ==
    /\ ret.op = "load_session" /\ ret.value = TRUE /\ ret.arg = "old"
    /\ Len(session_files["old"].messages) = MEMORY_MESSAGE_LIMIT + 2
    /\ Len(transient_memory) = MEMORY_MESSAGE_LIMIT
    /\ transient_memory[1] = HumanMessage(Text(3))
    /\ transient_memory[MEMORY_MESSAGE_LIMIT] =
          AIMessage(Text(MEMORY_MESSAGE_LIMIT + 2))

\* C15: the current session id and the buffer change in lockstep; a session
\* operation that fails (load_session, delete_session or clear_all_sessions
\* returning false) changes neither the session id nor the buffer
C15_FailedSessionOpChangesNothing ==
    [][(/\ ret'.op \in {"load_session", "delete_session",
                        "clear_all_sessions"}
        /\ ret'.value = FALSE)
       => (/\ session_id' = session_id
           /\ transient_memory' = transient_memory)]_vars

\* C16: while the memory mode is PERSISTENT and the store accepts the writes,
\* the two messages a query appends (the filtered user message, then the
\* answer) are afterwards the last two messages of a session record, also
\* when the engine was constructed in PERSISTENT mode or the active session
\* was deleted or cleared
C16_QueryMessagesPersisted ==
    [][(/\ ret'.op = "get_response"
        /\ mm_memory_mode = PERSISTENT
        /\ ret'.stores = <<"ok", "ok">>)
       => \E sid \in DOMAIN session_files' :
             LET msgs == session_files'[sid].messages
                 n == Len(msgs)
             IN /\ n >= 2
                /\ msgs[n - 1].role = "user"
                /\ msgs[n - 1].content = ret'.filtered
                /\ msgs[n].role = "assistant"
                /\ msgs[n].content = ret'.value]_vars

\* C17: add_user_message and add_ai_message always append the message to the
\* buffer (which keeps its most recent MEMORY_MESSAGE_LIMIT messages); with
\* the memory mode PERSISTENT and a non-empty session id the message is added
\* to that session's record and to the memory collection (the store accepting
\* the write) and no other record changes; in TRANSIENT mode, or with no
\* session id, no record and no document is created or modified
C17_AppendWritesIffPersistentAndSession ==
    [][(ret'.op \in {"add_user_message", "add_ai_message"}
        /\ Len(appended') = Len(appended) + 1)
       => LET a == appended'[Len(appended')]
              role == IF ret'.op = "add_user_message" THEN "user"
                      ELSE "assistant"
              writes == mm_memory_mode = PERSISTENT /\ a.sid \notin {NONE, ""}
              n == Len(transient_memory')
          IN /\ a.msg.type = (IF role = "user" THEN "human" ELSE "ai")
             /\ a.msg.content = ret'.arg
             /\ n = Min(Len(transient_memory) + 1, MEMORY_MESSAGE_LIMIT)
             /\ transient_memory' = Suffix(Append(transient_memory, a.msg), n)
             /\ ~writes => /\ session_files' = session_files
                           /\ pm_docs' = pm_docs
             /\ (writes /\ a.outcome = "ok") =>
                  /\ a.sid \in DOMAIN session_files'
                  /\ LET msgs == session_files'[a.sid].messages
                         before == IF a.sid \in DOMAIN session_files
                                   THEN session_files[a.sid].messages
                                   ELSE <<>>
                     IN /\ Len(msgs) = Len(before) + 1
                        /\ SubSeq(msgs, 1, Len(before)) = before
                        /\ msgs[Len(msgs)].role = role
                        /\ msgs[Len(msgs)].content = ret'.arg
                  /\ \A s \in DOMAIN session_files' \ {a.sid} :
                        s \in DOMAIN session_files
                        /\ session_files'[s] = session_files[s]
                  /\ Len(pm_docs') = Len(pm_docs) + 1
                  /\ SubSeq(pm_docs', 1, Len(pm_docs)) = pm_docs
                  /\ pm_docs'[Len(pm_docs')].page_content = ret'.arg
                  /\ pm_docs'[Len(pm_docs')].session_id = a.sid]_vars

C17_Witness ==
    /\ ret.op = "add_ai_message" /\ ret.outcome = "ok"
    /\ ret.sid \in Created
    /\ mm_memory_mode = PERSISTENT
    /\ Len(appended) = 2
    /\ appended[1].sid = "" /\ appended[1].mode = PERSISTENT
    /\ ret.sid \in DOMAIN session_files
    /\ Len(session_files[ret.sid].messages) = 1
    /\ session_files[ret.sid].messages[1].content = ret.arg
    /\ Len(transient_memory) = 2

\* C18: switching the memory mode from TRANSIENT to PERSISTENT while there is
\* no current session creates none: the current session id is still empty
\* when change_memory_mode(PERSISTENT) has returned
C18_SwitchCreatesNoSession ==
    [][(/\ ret'.op = "change_memory_mode"
        /\ ret'.arg = PERSISTENT
        /\ memory_mode = TRANSIENT /\ mm_memory_mode = TRANSIENT
        /\ session_id \in {NONE, ""})
       => session_id' \in {NONE, ""}]_vars

\* C19: a change_memory_mode call, in either direction, whether the switch
\* succeeds or the persistent store fails to initialize, leaves the contents
\* and order of the transient buffer unchanged
C19_SwitchKeepsBuffer ==
    [][ret'.op = "change_memory_mode"
       => transient_memory' = transient_memory]_vars

\* a switch to PERSISTENT whose store failed to initialize, the buffer holding
\* two messages
C19_Witness ==
    /\ ret.op = "change_memory_mode" /\ ret.arg = PERSISTENT
    /\ memory_mode = PERSISTENT /\ mm_memory_mode = TRANSIENT
    /\ ~persistent_memory
    /\ Len(transient_memory) = 2
    /\ transient_memory = MsgsOf(appended)

\* C20: the Memory Manager's delete_session(id), nothing failing in the
\* stores, returns true exactly when a record existed for id (false for an
\* unknown id and for a second deletion), and leaves every other session's
\* record unchanged
C20_DeleteReportsAbsence ==
    [][(ret'.op = "delete_session" /\ ret'.outcome = "ok")
       => (/\ ret'.value = (ret'.arg \in DOMAIN session_files)
           /\ ret'.arg \notin DOMAIN session_files'
           /\ \A s \in DOMAIN session_files \ {ret'.arg} :
                 /\ s \in DOMAIN session_files'
                 /\ session_files'[s] = session_files[s])]_vars

\* the session ids under which a message reached the persistent store
Persisted ==
    {appended[k].sid : k \in {i \in 1..Len(appended) :
                                /\ appended[i].mode = PERSISTENT
                                /\ appended[i].sid \notin {NONE, ""}
                                /\ appended[i].outcome = "ok"}}

\* the session ids under which a write to the persistent store was attempted
Attempted ==
    {appended[k].sid : k \in {i \in 1..Len(appended) :
                                /\ appended[i].mode = PERSISTENT
                                /\ appended[i].sid \notin {NONE, ""}}}

\* C21: create_new_session returns an identifier that was never returned or
\* used before and writes no record; a created session with no message
\* appended is not listed by get_all_sessions and load_session on it returns
\* false; its record appears with the first persisted message
C21_CreatedSessionHasNoRecordYet ==
    [][/\ ret'.op = "create_new_session" =>
            /\ ret'.value \notin Created \cup DOMAIN session_files
                                 \cup {session_id, NONE, ""}
            /\ ret'.value \notin {appended[k].sid : k \in 1..Len(appended)}
            /\ session_id' = ret'.value
            /\ session_files' = session_files
            /\ pm_docs' = pm_docs
       /\ ret'.op = "get_all_sessions" =>
            \A k \in 1..Len(ret'.value) :
                ret'.value[k].session_id \in Created
                    => ret'.value[k].session_id \in Attempted
       /\ (ret'.op = "load_session" /\ ret'.arg \in Created \ Attempted)
            => ret'.value = FALSE
       /\ \A sid \in Created' :
            /\ sid \in DOMAIN session_files' => sid \in Attempted'
            /\ sid \in Persisted' => sid \in DOMAIN session_files'
            /\ (sid \in DOMAIN session_files' \ DOMAIN session_files)
                 => Len(session_files'[sid].messages) = 1
      ]_vars

\* two sessions created, a message persisted under the second only, then
\* listed: the first is not in the list
C21_Witness ==
    /\ ret.op = "get_all_sessions" /\ ret.fail_at = 0
    /\ next_uuid = 2
    /\ Persisted = {UuidOf(2)}
    /\ {ret.value[k].session_id : k \in 1..Len(ret.value)} = {"old", UuidOf(2)}

\* a source value that names a document: present, non-empty, no placeholder
ValidSource(v) == v \notin {NoSourceKey, NONE, ""} \cup Placeholders

\* the identifier of a source value: its final path segment
Identifier(v) == IF HasSeparator(v) THEN LastSegment(v) ELSE v

\* the position of the first passage with identifier id
FirstAt(docs, id) ==
    CHOOSE k \in 1..Len(docs) :
        /\ ValidSource(docs[k].source) /\ Identifier(docs[k].source) = id
        /\ \A j \in 1..(k - 1) :
              ~(ValidSource(docs[j].source) /\ Identifier(docs[j].source) = id)

\* C22: the source list holds the identifier (final path segment) of every
\* passage whose source value is present and not a placeholder, each once, in
\* the order of first occurrence among the retrieved passages, and nothing
\* else
C22_CitationsDistinctFirstSeen ==
    ret.op = "_get_rag_response" =>
        LET ids == ret.sources
            docs == ret.docs
        IN /\ \A i, j \in 1..Len(ids) : i # j => ids[i] # ids[j]
           /\ \A k \in 1..Len(docs) :
                 ValidSource(docs[k].source) =>
                     \E i \in 1..Len(ids) : ids[i] = Identifier(docs[k].source)
           /\ \A i \in 1..Len(ids) :
                 \E k \in 1..Len(docs) :
                     /\ ValidSource(docs[k].source)
                     /\ ids[i] = Identifier(docs[k].source)
           /\ \A i, j \in 1..Len(ids) :
                 i < j => FirstAt(docs, ids[i]) < FirstAt(docs, ids[j])

\* [A, B, A, C] with B a placeholder and the second A a path to A
C22_Witness ==
    /\ ret.op = "_get_rag_response"
    /\ [k \in 1..Len(ret.docs) |-> ret.docs[k].source] =
           <<"manual.pdf", "filename.txt", "docs/manual.pdf", "guide.md">>
    /\ ret.sources = <<"manual.pdf", "guide.md">>

\* C23: the source list never contains the empty string or a placeholder
\* identifier, whatever the retrieved source values are
C23_NoInvalidIdentifierCited ==
    ret.op = "_get_rag_response" =>
        \A i \in 1..Len(ret.sources) :
            ret.sources[i] \notin {""} \cup Placeholders

\* seq without the later occurrences of its elements
RECURSIVE FirstSeen(_)
FirstSeen(seq) ==
    IF seq = <<>> THEN <<>>
    ELSE LET front == FirstSeen(SubSeq(seq, 1, Len(seq) - 1))
             x == seq[Len(seq)]
         IN IF \E i \in 1..Len(front) : front[i] = x THEN front
            ELSE Append(front, x)

\* the block for a list of identifiers, singular for one
OwnBlock(ids) ==
    CASE Len(ids) = 0 -> <<>>
      [] Len(ids) = 1 -> <<"[Source:", ids[1], "]">>
      [] OTHER -> <<"[Sources:">> \o ids \o <<"]">>

\* C24: the web-search answer ends with a block of the distinct non-empty
\* result URLs in first-seen order, "[Source: X]" for one URL and
\* "[Sources: A, B, ...]" for several; with no URL the model's reply is
\* returned as it is
C24_WebCitationsDistinct ==
    ret.op = "_get_web_search_response" =>
        LET given == SelectSeq([k \in 1..Len(ret.results) |-> ret.results[k].url],
                               LAMBDA u : u \notin {NONE, ""})
            block == OwnBlock(FirstSeen(given))
        IN /\ Len(ret.value) >= Len(block)
           /\ Suffix(ret.value, Len(block)) = block
           /\ given = <<>> => ret.value = ret.reply

\* C25: the RAG answer is the model's reply, without its last segment when
\* that is a bracketed "[Source ...]" segment, followed by the engine's block:
\* "[Source: X]" for one validated source, "[Sources: A, B, ...]" for
\* several, nothing for none; no "[Source ...]" segment of the model is left
\* at the end
C25_OneOwnCitationBlock ==
    ret.op = "_get_rag_response" =>
        LET n == Len(ret.reply)
            own == n > 0 /\ ret.reply[n] = "[Source: filename.txt]"
            body == IF own THEN SubSeq(ret.reply, 1, n - 1) ELSE ret.reply
        IN /\ ret.value = body \o OwnBlock(ret.sources)
           /\ \A k \in 1..Len(ret.value) :
                 ret.value[k] # "[Source: filename.txt]"

\* one valid source manual.pdf, the model having added a citation of its own
C25_Witness ==
    /\ ret.op = "_get_rag_response"
    /\ ret.tail = <<"[Source: filename.txt]">>
    /\ ret.sources = <<"manual.pdf">>
    /\ Len(ret.docs) = 2
    /\ Suffix(ret.value, 3) = <<"[Source:", "manual.pdf", "]">>
    /\ Len(ret.value) = Len(ret.reply) + 2

\* the categories applied one after the other, each on the output of the
\* one before
RECURSIVE Cascade(_, _)
Cascade(k, text) ==
    IF k = 0 THEN text
    ELSE PatternSub(Categories[k], Cascade(k - 1, text))

C27_FailuresReported ==
    /\ (ret.op = "change_model_provider"
          /\ (ret.selected = NONE
                 \/ (ret.primary_failed /\ ret.fallbacks = 0)))
         => ret.value = FALSE
    /\ (ret.op = "change_answer_mode"
          /\ Coerce(AnswerMode, ret.arg) \notin AnswerMode)
         => ret.value = FALSE
    /\ (ret.op = "change_answer_mode"
          /\ Coerce(AnswerMode, ret.arg) = WEB_SEARCH
          /\ chain.prompt # "WEB_SEARCH_PROMPT")
         => ret.value = FALSE
    /\ (ret.op = "change_memory_mode" /\ ret.arg = PERSISTENT
          /\ ~persistent_memory)
         => ret.value = FALSE
    /\ ret.op = "toggle_privacy_filter" => ret.value = TRUE
    /\ ret.op = "create_new_session" => ret.value \in Created
    /\ (ret.op = "load_session" /\ ret.read = "raises") => ret.value = FALSE
    /\ (ret.op \in {"delete_session", "clear_all_sessions"}
          /\ ret.outcome # "ok")
         => ret.value = FALSE
    /\ (ret.op = "get_all_sessions" /\ ret.fail_at > 0) => ret.value = <<>>

\* C28: on a dimension mismatch, at every step of opening the store the
\* store directory still has what it had unless its backup holds a complete
\* copy of that; the store and its backup are never both absent; when the
\* copy fails the store is left as it was and the call raises
C28_BackupBeforeRemoval ==
    (ret.op \in {"change_embedding_provider", "add_documents"}
       /\ ret.db \in MismatchOutcomes /\ ret.disks # <<>>) =>
        LET original == ret.disks[1].store
        IN /\ \A k \in 1..Len(ret.disks) :
                 /\ ret.disks[k].store # original
                      => ret.disks[k].backup = original
                 /\ ~(ret.disks[k].store = "absent"
                        /\ ret.disks[k].backup = "absent")
           /\ vs_disk.backup = ret.disks[Len(ret.disks)].backup
           /\ ret.op = "change_embedding_provider"
                => vs_disk = ret.disks[Len(ret.disks)]
           /\ ret.db = "dimension_mismatch_copy_fails"
                => (vs_disk.store = original /\ ret.value = FALSE)

\* a store with an earlier backup recreated: the earlier backup removed, the
\* store copied, removed and made again
C28_Witness ==
    /\ ret.op = "change_embedding_provider"
    /\ ret.db = "dimension_mismatch"
    /\ ret.disks = <<[store |-> "data", backup |-> "older data"],
                     [store |-> "data", backup |-> "absent"],
                     [store |-> "data", backup |-> "data"],
                     [store |-> "absent", backup |-> "data"],
                     [store |-> "empty", backup |-> "data"]>>
    /\ vs_disk = [store |-> "empty", backup |-> "data"]

\* C29: when every session file is read, get_all_sessions returns one summary
\* for each persisted session and no other, with the id, title, created_at
\* and updated_at of its record and the number of its messages, ordered by
\* updated_at descending: the first summary is of a session no other was
\* written to later
C29_SessionsNewestFirst ==
    (ret.op = "get_all_sessions" /\ ret.fail_at = 0) =>
        LET v == ret.value
        IN /\ Len(v) = Cardinality(DOMAIN session_files)
           /\ \A sid \in DOMAIN session_files :
                 \E k \in 1..Len(v) : v[k].session_id = sid
           /\ \A k \in 1..Len(v) :
                 LET f == session_files[v[k].session_id]
                 IN /\ v[k].title = f.title
                    /\ v[k].created_at = f.created_at
                    /\ v[k].updated_at = f.updated_at
                    /\ v[k].message_count = Len(f.messages)
                    /\ f.messages # <<>>
                        => v[k].updated_at
                             = f.messages[Len(f.messages)].timestamp
           /\ \A i, j \in 1..Len(v) :
                 i < j => v[i].updated_at >= v[j].updated_at

\* two sessions, the directory listing giving the older one first
C29_Witness ==
    /\ ret.op = "get_all_sessions" /\ ret.fail_at = 0
    /\ Len(ret.value) = 2
    /\ ret.listing[1] = ret.value[2].session_id
    /\ ret.value[1].updated_at > ret.value[2].updated_at
    /\ ret.value[1].message_count = 1
    /\ ret.value[2].message_count = 2

\* C30: in every get_response call the query is filtered, the filtered text
\* appended as the user message, the backend invoked, and its answer (or
\* the error text) appended as the assistant message, in that order: the
\* buffer grows by exactly that user message followed by exactly that
\* assistant message, which are its two newest entries after the call, and
\* in RAG mode the retrieval, the first backend call, is given a history
\* that already ends with the user message
C30_StepsInOrder ==
    [][ncalls' = ncalls + 1 =>
        LET user == HumanMessage(ret'.filtered)
            grown == transient_memory \o <<user, AIMessage(ret'.value)>>
            seen == LastN(transient_memory \o <<user>>, MEMORY_MESSAGE_LIMIT)
            n == Len(transient_memory')
        IN /\ ret'.filtered = filter_text(enable_filter, ret'.query).text
           /\ ret'.user_appended
           /\ transient_memory' = LastN(grown, MEMORY_MESSAGE_LIMIT)
           /\ n >= 2
           /\ transient_memory'[n].type = "ai"
           /\ transient_memory'[n - 1] = user
           /\ answer_mode = RAG =>
                /\ events' # <<>>
                /\ events'[1].call = "similarity_search"
                /\ events'[1].question
                     = _enhance_query_with_history(ret'.filtered, seen)
           /\ \A k \in 1..Len(events') :
                 Suffix(events'[k].question, Len(ret'.filtered))
                    = ret'.filtered
    ]_vars

\* a RAG query with sensitive data answered: the retrieval saw the redacted
\* user message as the last line of the conversation
C30_Witness ==
    /\ ret.op = "get_response" /\ ~ret.failed /\ answer_mode = RAG
    /\ enable_filter /\ HasSensitiveToken(ret.query)
    /\ Len(events) = 2
    /\ events[1].question
         = <<"Previous conversation:", "User:">> \o ret.filtered
             \o <<"Current question:">> \o ret.filtered
    /\ transient_memory = <<HumanMessage(ret.filtered), AIMessage(ret.value)>>

\* C31: the retrieval of a RAG query is given the question alone when no
\* message preceded it, and otherwise the question after a "Previous
\* conversation" block of the last 6 messages at most that preceded it, in
\* order, the question itself not among them; the model is then asked the
\* unenhanced question with the grounding prompt
C31_HistoryPrecedesQuestion ==
    [][(ncalls' = ncalls + 1 /\ answer_mode = RAG) =>
        /\ events' # <<>>
        /\ events'[1].call = "similarity_search"
        /\ events'[1].question =
             (IF transient_memory = <<>> THEN ret'.filtered
              ELSE <<"Previous conversation:">>
                     \o HistoryLines(LastN(transient_memory, 6))
                     \o <<"Current question:">> \o ret'.filtered)
        /\ Len(events') >= 2 => events'[2] = LlmCall("RAG_PROMPT", ret'.filtered)
    ]_vars

\* C32: a session record only grows at its end: a step leaves every record
\* there is, either as it was or with exactly one more message after the
\* ones it had, with the same session id and created_at and an updated_at
\* that is the timestamp of the message added and not earlier than before;
\* a record that appears holds one message; a message that is persisted is
\* the one added
C32_RecordAppendOnly ==
    [][/\ \A sid \in DOMAIN session_files :
            /\ sid \in DOMAIN session_files'
            /\ LET f == session_files[sid]
                   g == session_files'[sid]
                   n == Len(f.messages)
               IN /\ g.session_id = f.session_id
                  /\ g.created_at = f.created_at
                  /\ g.updated_at >= f.updated_at
                  /\ \/ g = f
                     \/ /\ Len(g.messages) = n + 1
                        /\ SubSeq(g.messages, 1, n) = f.messages
                        /\ g.updated_at = g.messages[n + 1].timestamp
                        /\ g.messages[n + 1].content = ret'.arg
                        /\ ret'.op \in {"add_user_message", "add_ai_message"}
       /\ \A sid \in DOMAIN session_files' \ DOMAIN session_files :
            LET g == session_files'[sid]
            IN /\ g.session_id = sid
               /\ Len(g.messages) = 1
               /\ g.created_at = g.messages[1].timestamp
               /\ g.updated_at = g.messages[1].timestamp
       /\ (/\ ret'.op \in {"add_user_message", "add_ai_message"}
           /\ appended' # appended
           /\ mm_memory_mode = PERSISTENT /\ persistent_memory
           /\ Truthy(ret'.sid) /\ ret'.outcome = "ok")
          => /\ ret'.sid \in DOMAIN session_files'
             /\ ret'.sid \in DOMAIN session_files
                  => session_files'[ret'.sid] # session_files[ret'.sid]
      ]_vars

\* a message added to the record an earlier run left: its two messages are
\* kept, the new one is third, created_at is the first message's time
C32_Witness ==
    /\ ret.op = "add_user_message" /\ ret.sid = "old"
    /\ "old" \in DOMAIN session_files
    /\ Len(session_files["old"].messages) = 3
    /\ session_files["old"].messages[3].content = ret.arg
    /\ session_files["old"].created_at = session_files["old"].messages[1].timestamp
    /\ session_files["old"].updated_at = session_files["old"].messages[3].timestamp
    /\ session_files["old"].updated_at > session_files["old"].messages[2].timestamp

\* C33: a step of change_answer_mode, change_model_provider or
\* toggle_privacy_filter, whether it succeeds, falls back or fails, leaves
\* the transient buffer, the current session id, the memory mode of the
\* engine and of the memory manager, every session record and the memory
\* collection as they were
C33_SettersKeepConversation ==
    [][ret'.op \in {"change_answer_mode", "change_model_provider",
                    "toggle_privacy_filter"}
       => UNCHANGED <<transient_memory, session_id, memory_mode,
                      mm_memory_mode, session_files, pm_docs,
                      persistent_memory>>
      ]_vars

\* a provider change that failed for its missing key, in a loaded session
\* with its two messages in the buffer
C33_Witness ==
    /\ ret.op = "change_model_provider" /\ ret.value = FALSE
    /\ ret.primary_failed
    /\ session_id = "old"
    /\ Len(transient_memory) = 2
    /\ "old" \in DOMAIN session_files
    /\ memory_mode = PERSISTENT

\* C34: after a provider switch that succeeded nothing refers to what was
\* there before: the chain is built on the LLM client in use, and after
\* change_embedding_provider the retriever of the retrieval chain is the
\* vector index in use, with the embedding client in use
C34_NoStaleReference ==
    /\ chain.llm = llm
    /\ (ret.op = "change_embedding_provider" /\ ret.value = TRUE
          /\ chain.kind = "ConversationalRetrievalChain")
         => /\ chain.retriever = vector_store
            /\ chain.retriever.embedding_function = embeddings

-----------------------------------------------------------------------------
(* SpecInterleaved: the methods of the engine as the steps a thread takes,  *)
(* two requests at a time on the same engine.  Nothing in get_response,     *)
(* load_session or create_new_session takes a lock; a step is one statement *)
(* that reads or writes shared state (self.session_id, the buffer, the      *)
(* memory collection, the session file).  The stores answer.                *)

QueryOf(t) == IF t = "t1" THEN <<"what is X?">> ELSE <<"what is Y?">>

CallOps == {"get_response", "load_session", "create_new_session"}

InFlight(t) == calls.of[t].pc \notin {"idle", "done"}

\* the request of thread t arrives while another is being served
Overlaps(t) == \E u \in Threads \ {t} : InFlight(u)

NoneBegun == \A t \in Threads : calls.of[t].pc = "idle"

\* no step of a call touches these
callFrame ==
    <<api_keys, tavily_key, model_provider, llm, answer_mode, chain,
      search_tool, memory_mode, enable_filter, mm_memory_mode,
      persistent_memory, vsVars, ret, events, appended, ncalls>>

FirstPc(op) ==
    IF op = "get_response" THEN "append"
    ELSE IF op = "load_session" THEN "clear" ELSE "new_id"

CallArgs(op) ==
    IF op = "load_session" THEN DOMAIN session_files \cup {"missing"}
    ELSE {NONE}

Pending(op, pc) ==
    Cardinality({u \in Threads : calls.of[u].op = op /\ calls.of[u].pc = pc})

\* the handler calls the method; get_response filters the query first
BeginCall(t) ==
    /\ calls.of[t].pc = "idle"
    /\ \E op \in CallOps : \E arg \in CallArgs(op) :
         LET q == QueryOf(t)
             text == IF op = "get_response"
                     THEN UserText(q, filter_text(enable_filter, q).text)
                     ELSE <<>>
         IN /\ op = "create_new_session" =>
                 next_uuid + Pending(op, "new_id") < MaxSessions
            /\ calls' = [calls EXCEPT
                 !.overlapped = @ \/ Overlaps(t),
                 !.of[t] = [Idle EXCEPT !.op = op, !.pc = FirstPc(op),
                                        !.question = text, !.text = text,
                                        !.sid = arg]]
    /\ UNCHANGED <<callFrame, session_id, transient_memory, pm_docs,
                   session_files, clock, next_uuid>>

\* where a get_response goes once a message is stored
AfterStore(role) == IF role = "user" THEN "dispatch" ELSE "done"

\* add_user_message / add_ai_message up to the call of
\* _add_to_persistent_memory; the argument self.session_id is read here
AppendMessage(t) ==
    LET c == calls.of[t]
        msg == IF c.role = "user" THEN HumanMessage(c.text)
               ELSE AIMessage(c.text)
        persistent == mm_memory_mode = PERSISTENT /\ Truthy(session_id)
    IN /\ c.pc = "append"
       /\ transient_memory' = _trim_transient_memory(Append(transient_memory, msg))
       /\ calls' = [calls EXCEPT
            !.of[t] = [c EXCEPT !.sid = session_id,
                                !.pc = IF persistent THEN "doc"
                                       ELSE AfterStore(c.role)]]
       /\ UNCHANGED <<callFrame, session_id, pm_docs, session_files, clock,
                      next_uuid>>

\* timestamp and persistent_memory.add_documents([doc])
AddDocument(t) ==
    LET c == calls.of[t]
        timestamp == clock + 1
    IN /\ c.pc = "doc"
       /\ clock' = timestamp
       /\ IF persistent_memory
          THEN /\ pm_docs' = Append(pm_docs,
                     [page_content |-> c.text, role |-> c.role,
                      timestamp |-> timestamp, session_id |-> c.sid])
               /\ calls' = [calls EXCEPT
                    !.of[t] = [c EXCEPT !.stamp = timestamp, !.pc = "read"]]
          ELSE /\ pm_docs' = pm_docs
               /\ calls' = [calls EXCEPT !.of[t].pc = AfterStore(c.role)]
       /\ UNCHANGED <<callFrame, session_id, transient_memory, session_files,
                      next_uuid>>

\* what _update_session_metadata finds on disk: the record, or no file
ReadRecord_absent(files, sid) == <<>>

ReadRecord(files, sid) ==
    IF sid \in DOMAIN files THEN <<files[sid]>> ELSE <<>>

\* json.dump of the record read earlier with the new message appended;
\* the other session files are not touched
WriteRecord(files, sid, data, role, content, timestamp) ==
    LET view == [s \in (IF data = <<>> THEN {} ELSE {sid}) |-> data[1]]
        new == _update_session_metadata(view, sid, role, content, timestamp, "ok")
    IN [s \in DOMAIN files \cup {sid} |-> IF s = sid THEN new[sid] ELSE files[s]]

ReadSessionFile(t) ==
    LET c == calls.of[t]
    IN /\ c.pc = "read"
       /\ calls' = [calls EXCEPT
            !.of[t] = [c EXCEPT !.data = ReadRecord(session_files, c.sid),
                                !.pc = "write"]]
       /\ UNCHANGED <<callFrame, session_id, transient_memory, pm_docs,
                      session_files, clock, next_uuid>>

WriteSessionFile(t) ==
    LET c == calls.of[t]
    IN /\ c.pc = "write"
       /\ session_files' = WriteRecord(session_files, c.sid, c.data, c.role,
                                       c.text, c.stamp)
       /\ calls' = [calls EXCEPT
            !.written = @ \cup {[sid |-> c.sid, role |-> c.role,
                                 content |-> c.text]},
            !.of[t] = [c EXCEPT !.data = <<>>, !.pc = AfterStore(c.role)]]
       /\ UNCHANGED <<callFrame, session_id, transient_memory, pm_docs, clock,
                      next_uuid>>

\* the answer of the model, on the default chain
DispatchQuery(t) ==
    LET c == calls.of[t]
        d == _get_default_response(chain, c.text, "ok")
    IN /\ c.pc = "dispatch"
       /\ answer_mode = DEFAULT /\ ~d.raised
       /\ calls' = [calls EXCEPT
            !.of[t] = [c EXCEPT !.role = "assistant", !.text = d.text,
                                !.answer = d.text, !.pc = "append"]]
       /\ UNCHANGED <<callFrame, session_id, transient_memory, pm_docs,
                      session_files, clock, next_uuid>>

\* MemoryManager.load_session: the mode test and transient_memory.clear()
ClearTransient(t) ==
    LET c == calls.of[t]
    IN /\ c.pc = "clear"
       /\ IF mm_memory_mode # PERSISTENT
          THEN /\ transient_memory' = transient_memory
               /\ calls' = [calls EXCEPT !.of[t].pc = "done"]
          ELSE /\ transient_memory' = <<>>
               /\ calls' = [calls EXCEPT !.of[t].pc = "open"]
       /\ UNCHANGED <<callFrame, session_id, pm_docs, session_files, clock,
                      next_uuid>>

\* os.path.exists and json.load
OpenSessionFile(t) ==
    LET c == calls.of[t]
        data == ReadRecord(session_files, c.sid)
    IN /\ c.pc = "open"
       /\ calls' = [calls EXCEPT
            !.of[t] = [c EXCEPT !.data = data,
                                !.pc = IF data = <<>> THEN "done" ELSE "replay"]]
       /\ UNCHANGED <<callFrame, session_id, transient_memory, pm_docs,
                      session_files, clock, next_uuid>>

\* the messages of the record are added to the buffer, which is trimmed
ReplayMessages(t) ==
    LET c == calls.of[t]
    IN /\ c.pc = "replay"
       /\ transient_memory' = _trim_transient_memory(
              transient_memory \o Replay(c.data[1].messages))
       /\ calls' = [calls EXCEPT
            !.of[t] = [c EXCEPT !.data = <<>>, !.pc = "set"]]
       /\ UNCHANGED <<callFrame, session_id, pm_docs, session_files, clock,
                      next_uuid>>

\* LLM.load_session: self.session_id = session_id
SetSessionId(t) ==
    LET c == calls.of[t]
    IN /\ c.pc = "set"
       /\ session_id' = c.sid
       /\ calls' = [calls EXCEPT !.of[t].pc = "done"]
       /\ UNCHANGED <<callFrame, transient_memory, pm_docs, session_files,
                      clock, next_uuid>>

\* LLM.create_new_session: self.session_id = create_session()
NewSessionId(t) ==
    LET c == calls.of[t]
    IN /\ c.pc = "new_id"
       /\ session_id' = create_session
       /\ next_uuid' = next_uuid + 1
       /\ calls' = [calls EXCEPT !.of[t].pc = "clear_new"]
       /\ UNCHANGED <<callFrame, transient_memory, pm_docs, session_files,
                      clock>>

\* LLM.create_new_session: transient_memory.clear()
ClearForNewSession(t) ==
    LET c == calls.of[t]
    IN /\ c.pc = "clear_new"
       /\ transient_memory' = <<>>
       /\ calls' = [calls EXCEPT !.of[t].pc = "done"]
       /\ UNCHANGED <<callFrame, session_id, pm_docs, session_files, clock,
                      next_uuid>>

InitInterleaved ==
    ConstructedWith(MemoryManagerOver(EarlierRun("old", 2), PERSISTENT, TRUE),
                    {"groq"}, TRUE, HUGGINGFACE, TRUE, "200", NoDisk, "ok",
                    GROQ, DEFAULT, PERSISTENT, TRUE, TRUE)
NextInterleaved ==
    \/ (NoneBegun /\ LoadSession)
    \/ (NoneBegun /\ next_uuid < MaxSessions /\ CreateNewSession)
    \/ \E t \in Threads : BeginCall(t)
    \/ \E t \in Threads : AppendMessage(t)
    \/ \E t \in Threads : AddDocument(t)
    \/ \E t \in Threads : ReadSessionFile(t)
    \/ \E t \in Threads : WriteSessionFile(t)
    \/ \E t \in Threads : DispatchQuery(t)
    \/ \E t \in Threads : ClearTransient(t)
    \/ \E t \in Threads : OpenSessionFile(t)
    \/ \E t \in Threads : ReplayMessages(t)
    \/ \E t \in Threads : SetSessionId(t)
    \/ \E t \in Threads : NewSessionId(t)
    \/ \E t \in Threads : ClearForNewSession(t)
SpecInterleaved == InitInterleaved /\ [][NextInterleaved]_vars

\* a message whose write to the session file completed is not in the file
LostMessage ==
    \E w \in calls.written :
        \/ w.sid \notin DOMAIN session_files
        \/ \A k \in DOMAIN session_files[w.sid].messages :
              LET msg == session_files[w.sid].messages[k]
              IN ~(msg.role = w.role /\ msg.content = w.content)

\* the answer of a call stands, in the buffer or in a session file,
\* elsewhere than right after the question of that call
MisfiledAnswer ==
    \E t \in Threads :
        LET c == calls.of[t]
        IN /\ c.answer # <<>>
           /\ \/ \E k \in DOMAIN transient_memory :
                    /\ transient_memory[k] = AIMessage(c.answer)
                    /\ ~(k > 1 /\ transient_memory[k - 1] = HumanMessage(c.question))
              \/ \E s \in DOMAIN session_files :
                 \E k \in DOMAIN session_files[s].messages :
                    LET ms == session_files[s].messages
                    IN /\ ms[k].role = "assistant" /\ ms[k].content = c.answer
                       /\ ~(k > 1 /\ ms[k - 1].role = "user"
                                  /\ ms[k - 1].content = c.question)

\* C35: as long as no call on the engine began while another was in
\* progress, no persisted message is lost and every answer stands right
\* after its own question; interleaved calls reach both states.
C35_SerializedCallsAreSafe ==
    ~calls.overlapped => ~LostMessage /\ ~MisfiledAnswer

C35_Witness ==
    /\ calls.overlapped
    /\ LostMessage
    /\ MisfiledAnswer

-----------------------------------------------------------------------------
(* SpecRefilter: filter_text applied to its own output *)

\* an address directly followed by sixteen digits: \b of the e-mail pattern
\* fails between "co" and the digits, \d{16}\b of the card pattern has no
\* leading \b
AbuttingToken == "a@b.co1234567890123456"

TokensAbutting == Tokens \cup {AbuttingToken}

\* PrivacyFilter.filter_text called on a text, then on what it returned
FilterTextTwice ==
    /\ ncalls = 0
    /\ \E text \in SeqsUpTo(TokensAbutting, MaxTokens) :
         /\ TokenWise(text)
         /\ LET r1 == filter_text(enable_filter, text)
                r2 == filter_text(enable_filter, r1.text)
            IN ret' = [op |-> "filter_text_twice", arg |-> text,
                       enable |-> enable_filter, first |-> r1.text,
                       found1 |-> r1.found, value |-> r2.text,
                       found |-> r2.found]
    /\ ncalls' = 1
    /\ UNCHANGED <<envVars, llmVars, mmVars, vsVars, next_uuid, events,
                   appended>>

InitRefilter == DefaultStart
NextRefilter == TogglePrivacyFilter \/ FilterTextTwice
SpecRefilter == InitRefilter /\ [][NextRefilter]_vars

\* C36: filter_text applied to its own output returns that output and
\* reports no sensitive data; with the filter disabled it returns its input
\* and reports no sensitive data.
C36_FilterIdempotent ==
    ret.op = "filter_text_twice" =>
        /\ ret.value = ret.first
        /\ ~ret.found
        /\ ~ret.enable => (ret.first = ret.arg /\ ~ret.found1)

\* C37: the memory mode recorded by the engine is the memory mode of its
\* MemoryManager, and a change_memory_mode that returned True has put the
\* MemoryManager in the mode asked for.
C37_MemoryModesAgree ==
    /\ memory_mode = mm_memory_mode
    /\ (ret.op = "change_memory_mode" /\ ret.value = TRUE) =>
           mm_memory_mode = ret.arg

\* the messages the memory collection holds under a session id, as the
\* session file lists them
DocMessages(sid) ==
    LET held == SelectSeq(pm_docs, LAMBDA d : d.session_id = sid)
    IN [k \in 1..Len(held) |->
          [role |-> held[k].role, content |-> held[k].page_content,
           timestamp |-> held[k].timestamp]]

FileMessages(sid) ==
    IF sid \in DOMAIN session_files THEN session_files[sid].messages ELSE <<>>

\* C38: for every session the messages in the memory collection are the
\* messages of the session file; no message is in one store and not in
\* the other.
C38_DualWriteConsistent ==
    \A sid \in DOMAIN session_files \cup {pm_docs[k].session_id : k \in DOMAIN pm_docs} :
        DocMessages(sid) = FileMessages(sid)

\* C39: a delete_session or clear_all_sessions that returns False leaves
\* every session file as it was; and the session "old", on disk from the
\* start and therefore deleted once its file is gone, is not brought back
\* by a later get_response.
C39_DeletionAllOrNothing ==
    [][/\ (ret'.op \in {"delete_session", "clear_all_sessions"}
              /\ ret'.value = FALSE) => session_files' = session_files
       /\ (ret'.op = "get_response" /\ "old" \in DOMAIN session_files') =>
              "old" \in DOMAIN session_files
      ]_vars

====
